---------------------------- MODULE Spec2Model ----------------------------
(***************************************************************************)
(* A model of ctxlog: the scope registry, the scope activation engine, the *)
(* context-local and global enablement stores, the buffered random pool    *)
(* and the logger resolution in From.                                      *)
(*                                                                         *)
(* Go pointers are indices into heaps: scopes (the *Scope objects), maps   *)
(* (the map[string]bool values carried by contexts) and ctxs (the          *)
(* context.Context values, each a parent link with one key/value pair).    *)
(* An optional value (a nil-able pointer, an "ok" lookup) is a sequence of *)
(* length 0 or 1.                                                          *)
(***************************************************************************)
EXTENDS Integers, Sequences, FiniteSets, TLC

VARIABLES
    scopes,         \* heap of Scope objects; a *Scope is an index, 0 is nil
    globalScopes,   \* the registry: name -> *Scope
    enabledScopes,  \* the global enablement store: name -> *Scope
    environ,        \* the process environment: variable -> value
    ctxs,           \* heap of contexts; ctxs[1] is context.Background()
    maps,           \* heap of the map[string]bool values stored in contexts
    globalRandPool, \* the secure random pool: [buffer, pos]
    captures,       \* heap of Capture objects: [records]
    callers,        \* the goroutines: the statement each executes next
                    \* and the arguments and locals of its call
    mu,             \* globalRandPool.mu: the goroutine holding it, 0 if free
    handed,         \* the slots returned to callers since the last refill
    ret,            \* the outcome of the last call
    locks           \* scopesMu, enabledMu and the mu of every locked scope

vars == <<scopes, globalScopes, enabledScopes, environ, ctxs, maps,
          globalRandPool, captures, callers, mu, handed, ret, locks>>

-----------------------------------------------------------------------------
(* Bounds of the model *)

\* longest scope name that is registered ("a.b.b" is a chain of depth three)
MaxNameLen == 5
\* longest children list a scope is let to grow (NewChild appends every time)
MaxChildren == 2
\* number of contexts on the heap, context.Background() included
MaxCtx == 3
\* words in the pool's buffer (256 in the source; the length only sets how
\* many draws lie between two refills)
randPoolSize == 2
\* goroutines that call getUint64 concurrently
NumCallers == 2
\* records the captures are let to hold, all together
MaxRecords == 2

-----------------------------------------------------------------------------
(* Optional values, and what the last call handed back *)

ReturnVoid == [kind |-> "void"]
ReturnScope(s) == [kind |-> "scope", scope |-> s]
ReturnCtx(c) == [kind |-> "ctx", ctx |-> c]

Nil == <<>>
Ptr(v) == <<v>>

-----------------------------------------------------------------------------
(* slog levels *)

LevelDebug == -4
LevelInfo == 0
LevelWarn == 4
LevelError == 8

-----------------------------------------------------------------------------
(* Scope options and the registry *)

EnabledBy(envVars) == [kind |-> "EnabledBy", envVars |-> envVars]

EnabledMinLevel(level) == [kind |-> "EnabledMinLevel", level |-> level]

\* what calling one ScopeOption does to the scopeConfig
ApplyScopeOption(cfg, opt) ==
    IF opt.kind = "EnabledBy"
    THEN [cfg EXCEPT !.envVars = opt.envVars]
    ELSE [cfg EXCEPT !.logLevel = Ptr(opt.level)]

RECURSIVE ApplyScopeOptions(_, _)
ApplyScopeOptions(cfg, options) ==
    IF options = <<>> THEN cfg
    ELSE ApplyScopeOptions(ApplyScopeOption(cfg, Head(options)), Tail(options))

\* the scopeConfig NewScope builds from its options
scopeConfig(options) ==
    ApplyScopeOptions([envVars |-> <<>>, logLevel |-> Nil], options)

\* the Scope object NewScope constructs
NewScopeObject(name, options) ==
    [name     |-> name,
     envVars  |-> scopeConfig(options).envVars,
     logLevel |-> scopeConfig(options).logLevel,
     parent   |-> 0,
     children |-> <<>>]

\* (mutant) a registered name has its conditions replaced by the new options
NewScopeHeapReconfigure(reg, heap, name, options) ==
    IF name \in DOMAIN reg
    THEN [heap EXCEPT ![reg[name]].envVars = scopeConfig(options).envVars,
                      ![reg[name]].logLevel = scopeConfig(options).logLevel]
    ELSE Append(heap, NewScopeObject(name, options))

\* NewScope: the scope it returns, the heap and the registry it leaves
NewScopeResult(reg, heap, name, options) ==
    IF name \in DOMAIN reg THEN reg[name] ELSE Len(heap) + 1

NewScopeHeap(reg, heap, name, options) ==
    IF name \in DOMAIN reg THEN heap
    ELSE Append(heap, NewScopeObject(name, options))

NewScopeRegistry(reg, heap, name, options) ==
    IF name \in DOMAIN reg THEN reg
    ELSE (name :> (Len(heap) + 1)) @@ reg

\* (mutant) the separator between the parent's name and the short name is
\* left out
fullNameNoSeparator(s, name) == scopes[s].name \o name

\* NewChild's full name
fullName(s, name) == scopes[s].name \o "." \o name

\* (mutant) the link is set the wrong way round: s.parent = child
NewChildHeapLinksUpward(s, name, options) ==
    LET child == NewScopeResult(globalScopes, scopes, fullName(s, name), options)
        heap1 == NewScopeHeap(globalScopes, scopes, fullName(s, name), options)
        heap2 == [heap1 EXCEPT ![s].parent = child]
    IN  [heap2 EXCEPT ![s].children = Append(@, child)]

\* NewChild: the heap after NewScope, child.parent = s and the append to
\* s.children
NewChildHeap(s, name, options) ==
    LET child == NewScopeResult(globalScopes, scopes, fullName(s, name), options)
        heap1 == NewScopeHeap(globalScopes, scopes, fullName(s, name), options)
        heap2 == [heap1 EXCEPT ![child].parent = s]
    IN  [heap2 EXCEPT ![s].children = Append(@, child)]

-----------------------------------------------------------------------------
(* Contexts *)

enabledScopesKey == "enabledScopesKey"
logLevelKey == "logLevelKey"
loggerKey == "loggerKey"

Background == [parent |-> 0, key |-> "", val |-> Nil]

\* context.WithValue
WithValue(ctx, key, val) == [parent |-> ctx, key |-> key, val |-> Ptr(val)]

\* ctx.Value(key): the nearest value bound to key, Nil when there is none
RECURSIVE Value(_, _)
Value(ctx, key) ==
    IF ctx = 0 THEN Nil
    ELSE IF ctxs[ctx].key = key THEN ctxs[ctx].val
    ELSE Value(ctxs[ctx].parent, key)

\* EnableScope: the map the new context carries
RECURSIVE SetAll(_, _)
SetAll(m, names) ==
    IF names = <<>> THEN m
    ELSE SetAll((Head(names) :> TRUE) @@ m, Tail(names))

ScopeNamesOf(ss) == [i \in 1..Len(ss) |-> scopes[ss[i]].name]

EmptyMap == [n \in {} |-> TRUE]

\* (mutant) the new map starts empty whatever the context carries
EnableScopeMapFresh(ctx, ss) == SetAll(EmptyMap, ScopeNamesOf(ss))

EnableScopeMap(ctx, ss) ==
    IF Value(ctx, enabledScopesKey) # Nil
    THEN SetAll(maps[Value(ctx, enabledScopesKey)[1]], ScopeNamesOf(ss))
    ELSE SetAll(EmptyMap, ScopeNamesOf(ss))

\* (mutant) the names are written into the map the context already carries
EnableScopeInPlace(ctx, ss) ==
    IF Value(ctx, enabledScopesKey) # Nil
    THEN [maps |-> [maps EXCEPT ![Value(ctx, enabledScopesKey)[1]] =
                        SetAll(@, ScopeNamesOf(ss))],
          ref  |-> Value(ctx, enabledScopesKey)[1]]
    ELSE [maps |-> Append(maps, SetAll(EmptyMap, ScopeNamesOf(ss))),
          ref  |-> Len(maps) + 1]

\* EnableScope: the heap of maps it leaves and the map the returned context
\* points to (contextScopes is a new map in both branches)
EnableScopeAlloc(ctx, ss) ==
    [maps |-> Append(maps, EnableScopeMap(ctx, ss)), ref |-> Len(maps) + 1]

-----------------------------------------------------------------------------
(* Scope activation *)

\* 1. context-based dynamic enablement
ctxEnabled(s, ctx) ==
    /\ Value(ctx, enabledScopesKey) # Nil
    /\ LET m == maps[Value(ctx, enabledScopesKey)[1]]
       IN  scopes[s].name \in DOMAIN m /\ m[scopes[s].name]

\* 2. global dynamic enablement
globalEnabled(s) == scopes[s].name \in DOMAIN enabledScopes

\* (mutant) a scope that declares no minimum level has the minimum Info
levelMetDefaultInfo(s, ctx) ==
    /\ Value(ctx, logLevelKey) # Nil
    /\ Value(ctx, logLevelKey)[1] >=
           (IF scopes[s].logLevel # Nil THEN scopes[s].logLevel[1]
            ELSE LevelInfo)

\* (mutant) the current level has to exceed the minimum level
levelMetStrict(s, ctx) ==
    /\ scopes[s].logLevel # Nil
    /\ Value(ctx, logLevelKey) # Nil
    /\ Value(ctx, logLevelKey)[1] > scopes[s].logLevel[1]

\* 4. log level threshold
levelMet(s, ctx) ==
    /\ scopes[s].logLevel # Nil
    /\ Value(ctx, logLevelKey) # Nil
    /\ Value(ctx, logLevelKey)[1] >= scopes[s].logLevel[1]

\* (mutant) os.Getenv(envVar) != "": a variable set to "" does not count
LookupEnvNonEmpty(envVar) == envVar \in DOMAIN environ /\ environ[envVar] # ""

\* os.LookupEnv's "exists"
LookupEnvExists(envVar) == envVar \in DOMAIN environ

\* 5. environment variables
envPresent(s) ==
    \E i \in 1..Len(scopes[s].envVars) : LookupEnvExists(scopes[s].envVars[i])

\* (mutant) the parent is never consulted
isActiveWithoutParent(s, ctx) ==
    ctxEnabled(s, ctx) \/ globalEnabled(s) \/ levelMet(s, ctx) \/ envPresent(s)

\* (mutant) activation also flows upward: a scope is active when one of its
\* children has a signal of its own
RECURSIVE isActiveUpward(_, _)
isActiveUpward(s, ctx) ==
    \/ isActiveWithoutParent(s, ctx)
    \/ scopes[s].parent # 0 /\ isActiveUpward(scopes[s].parent, ctx)
    \/ \E i \in 1..Len(scopes[s].children) :
           isActiveWithoutParent(scopes[s].children[i], ctx)

\* (mutant) a declared level decides alone: the environment is not reached
RECURSIVE isActiveLevelDecides(_, _)
isActiveLevelDecides(s, ctx) ==
    IF ctxEnabled(s, ctx) THEN TRUE
    ELSE IF globalEnabled(s) THEN TRUE
    ELSE IF scopes[s].parent # 0 /\ isActiveLevelDecides(scopes[s].parent, ctx)
    THEN TRUE
    ELSE IF scopes[s].logLevel # Nil /\ Value(ctx, logLevelKey) # Nil
    THEN Value(ctx, logLevelKey)[1] >= scopes[s].logLevel[1]
    ELSE envPresent(s)

RECURSIVE isActive(_, _)
isActive(s, ctx) ==
    IF ctxEnabled(s, ctx) THEN TRUE
    ELSE IF globalEnabled(s) THEN TRUE
    ELSE IF scopes[s].parent # 0 /\ isActive(scopes[s].parent, ctx) THEN TRUE
    ELSE IF levelMet(s, ctx) THEN TRUE
    ELSE envPresent(s)

-----------------------------------------------------------------------------
(* Global enablement *)

\* (mutant) enabling a scope that is enabled already turns it off
RECURSIVE EnableScopeGlobalToggle(_, _)
EnableScopeGlobalToggle(m, ss) ==
    IF ss = <<>> THEN m
    ELSE IF scopes[Head(ss)].name \in DOMAIN m
    THEN EnableScopeGlobalToggle(
             [n \in DOMAIN m \ {scopes[Head(ss)].name} |-> m[n]], Tail(ss))
    ELSE EnableScopeGlobalToggle((scopes[Head(ss)].name :> Head(ss)) @@ m,
                                 Tail(ss))

RECURSIVE EnableScopeGlobalMap(_, _)
EnableScopeGlobalMap(m, ss) ==
    IF ss = <<>> THEN m
    ELSE EnableScopeGlobalMap((scopes[Head(ss)].name :> Head(ss)) @@ m, Tail(ss))

\* (mutant) the store is reset instead of the given entries being deleted
DisableScopeGlobalClear(m, ss) == [n \in {} |-> 0]

RECURSIVE DisableScopeGlobalMap(_, _)
DisableScopeGlobalMap(m, ss) ==
    IF ss = <<>> THEN m
    ELSE DisableScopeGlobalMap(
             [n \in DOMAIN m \ {scopes[Head(ss)].name} |-> m[n]], Tail(ss))

-----------------------------------------------------------------------------
(* Random numbers                                                          *)
(*                                                                         *)
(* A uint64 is four 16-bit limbs, most significant first.  A float64 in    *)
(* [0, 2) that is a multiple of 2^-53 is its numerator over 2^53, in the   *)
(* same four limbs: float64(w >> 11) * (1.0 / (1 << 53)) is exact, and a   *)
(* rate r stands for floor(r * 2^53), which compares with every draw as r  *)
(* does.                                                                   *)
(***************************************************************************)

ieee754MantissaBits == 53
ieee754MantissaShift == 11

LimbBits == 16
Limb == 2^LimbBits

\* w >> k for 0 < k < LimbBits
ShiftRight(w, k) ==
    [i \in 1..4 |->
        (w[i] \div 2^k) +
        (IF i = 1 THEN 0 ELSE (w[i - 1] % 2^k) * 2^(LimbBits - k))]

\* a > b on unsigned limb sequences
Gt(a, b) ==
    \E i \in 1..4 : a[i] > b[i] /\ \A j \in 1..(i - 1) : a[j] = b[j]

\* (mutant) one bit too few is shifted out: the draw ranges over [0, 2)
Float64OfWordShiftedLess(w) == ShiftRight(w, ieee754MantissaShift - 1)

\* (mutant) the word is rounded to the nearest multiple of 2^11, not cut
Float64OfWordRounded(w) ==
    LET cut == ShiftRight(w, ieee754MantissaShift)
    IN  IF w[4] % 2^ieee754MantissaShift < 2^(ieee754MantissaShift - 1)
        THEN cut
        ELSE [i \in 1..4 |->
                 IF \A j \in (i + 1)..4 : cut[j] = Limb - 1
                 THEN (cut[i] + 1) % Limb ELSE cut[i]]

\* float64(w >> ieee754MantissaShift) * (1.0 / (1 << ieee754MantissaBits))
Float64OfWord(w) == ShiftRight(w, ieee754MantissaShift)

\* the float64 1.0
One == <<2^(ieee754MantissaBits - 3 * LimbBits), 0, 0, 0>>

ZeroWord == <<0, 0, 0, 0>>

\* (mutant) the cursor starts at the first slot
initialRandPoolAtStart ==
    [buffer |-> [i \in 1..randPoolSize |-> ZeroWord], pos |-> 0]

\* globalRandPool as the package creates it: make() zeroes the buffer, the
\* cursor is at randPoolSize
initialRandPool ==
    [buffer |-> [i \in 1..randPoolSize |-> ZeroWord], pos |-> randPoolSize]

\* refillBuffer: the pool after a successful rand.Read that produced words
refillBuffer(rp, words) == [buffer |-> words, pos |-> 0]

\* (mutant) a failed refill rewinds the cursor: the old buffer is served again
getUint64FailureRewinds(rp, fills) ==
    LET take(p) == [pool |-> [p EXCEPT !.pos = @ + 1],
                    val  |-> p.buffer[p.pos + 1]]
    IN  IF rp.pos >= Len(rp.buffer)
        THEN {[pool |-> [rp EXCEPT !.pos = 0], val |-> ZeroWord]} \cup
             {take(refillBuffer(rp, b)) : b \in fills}
        ELSE {take(rp)}

\* getUint64 on pool rp: every [pool, val] it can leave and return; fills is
\* what rand.Read may produce
getUint64(rp, fills) ==
    LET take(p) == [pool |-> [p EXCEPT !.pos = @ + 1],
                    val  |-> p.buffer[p.pos + 1]]
    IN  IF rp.pos >= Len(rp.buffer)
        THEN {[pool |-> rp, val |-> ZeroWord]} \cup
             {take(refillBuffer(rp, b)) : b \in fills}
        ELSE {take(rp)}

\* cryptoRandFloat64: every [pool, val]
cryptoRandFloat64(rp, fills) ==
    {[pool |-> o.pool, val |-> Float64OfWord(o.val)] : o \in getUint64(rp, fills)}

\* (mutant) the fast source moves the pool's cursor on as well
fastRandFloat64MovesCursor(rp, draws) ==
    {[pool |-> [rp EXCEPT !.pos = (@ + 1) % (Len(rp.buffer) + 1)], val |-> d] :
         d \in draws}

\* fastRandFloat64: math/rand/v2's Float64 is a 53-bit numerator over 2^53
fastRandFloat64(rp, draws) == {[pool |-> rp, val |-> d] : d \in draws}

-----------------------------------------------------------------------------
(* Loggers and From *)

\* a *slog.Logger: whether its handler drops everything, the sink its handler
\* writes to, the attributes added by With, and the Capture its handler
\* appends to (0 when its handler is no captureHandler)
DefaultLogger ==
    [discard |-> FALSE, base |-> "default", attrs |-> <<>>, capture |-> 0]

createDiscardLogger ==
    [discard |-> TRUE, base |-> "discard", attrs |-> <<>>, capture |-> 0]

\* a logger the program made itself, writing to sink
NewLogger(sink) ==
    [discard |-> FALSE, base |-> sink, attrs |-> <<>>, capture |-> 0]

\* NewCapture's logger: a captureHandler for capture k around a text handler
CaptureLogger(k) ==
    [discard |-> FALSE, base |-> "text", attrs |-> <<>>, capture |-> k]

\* captureHandler.Enabled: the base handler's answer; a text handler made
\* with nil options passes Info and above
HandlerEnabled(logger, level) == ~logger.discard /\ level >= LevelInfo

\* (mutant) the record is put in front of the records already captured
HandlePrepend(caps, logger, record) ==
    IF logger.capture # 0
    THEN [caps EXCEPT ![logger.capture].records = <<record>> \o @]
    ELSE caps

\* captureHandler.Handle: the heap of captures after the handler of logger
\* handled record
Handle(caps, logger, record) ==
    IF logger.capture # 0
    THEN [caps EXCEPT ![logger.capture].records = Append(@, record)]
    ELSE caps

\* logger.Log(level, msg): the handler is asked whether it is enabled and
\* then handles the record
LoggerLog(caps, logger, level, msg) ==
    IF HandlerEnabled(logger, level)
    THEN Handle(caps, logger, [message |-> msg, level |-> level])
    ELSE caps

\* the number of records in all captures together
RECURSIVE CapturedCount(_)
CapturedCount(caps) ==
    IF caps = <<>> THEN 0
    ELSE Len(Head(caps).records) + CapturedCount(Tail(caps))

\* Capture.Messages and Capture.Records
MessagesOf(c) == [i \in 1..Len(c.records) |-> c.records[i].message]
RecordsOf(c) == [i \in 1..Len(c.records) |-> c.records[i]]

\* logger.With(key, value)
LoggerWith(logger, key, value) ==
    [logger EXCEPT !.attrs = Append(@, <<key, value>>)]

ScopeOpt(s) == [kind |-> "scope", scope |-> s]
WithSampling(rate) == [kind |-> "sampling", rate |-> rate]
WithCond(condition) == [kind |-> "cond", condition |-> condition]
WithFastRand == [kind |-> "fastRand"]

\* (mutant) an option does not replace what an earlier option of its kind
\* has set
applyKeepsFirst(cfg, opt) ==
    CASE opt.kind = "scope" ->
             IF cfg.scope = 0 THEN [cfg EXCEPT !.scope = opt.scope] ELSE cfg
      [] opt.kind = "sampling" ->
             IF cfg.sampling = Nil THEN [cfg EXCEPT !.sampling = Ptr(opt.rate)]
             ELSE cfg
      [] opt.kind = "cond" ->
             IF cfg.condition = Nil
             THEN [cfg EXCEPT !.condition = Ptr(opt.condition)] ELSE cfg
      [] opt.kind = "fastRand" -> [cfg EXCEPT !.fastRand = TRUE]

\* opt.apply(cfg)
apply(cfg, opt) ==
    CASE opt.kind = "scope"    -> [cfg EXCEPT !.scope = opt.scope]
      [] opt.kind = "sampling" -> [cfg EXCEPT !.sampling = Ptr(opt.rate)]
      [] opt.kind = "cond"     -> [cfg EXCEPT !.condition = Ptr(opt.condition)]
      [] opt.kind = "fastRand" -> [cfg EXCEPT !.fastRand = TRUE]

RECURSIVE applyAll(_, _)
applyAll(cfg, options) ==
    IF options = <<>> THEN cfg
    ELSE applyAll(apply(cfg, Head(options)), Tail(options))

\* the config From builds from its options
config(options) ==
    applyAll([scope |-> 0, sampling |-> Nil, condition |-> Nil,
              fastRand |-> FALSE], options)

\* (mutant) the first logger bound on the lineage wins over later ones
RECURSIVE baseLoggerOldest(_)
baseLoggerOldest(ctx) ==
    IF ctx = 0 THEN DefaultLogger
    ELSE IF baseLoggerOldest(ctxs[ctx].parent) # DefaultLogger
    THEN baseLoggerOldest(ctxs[ctx].parent)
    ELSE IF ctxs[ctx].key = loggerKey THEN ctxs[ctx].val[1]
    ELSE DefaultLogger

\* From's baseLogger before the scope field is added
baseLogger(ctx) ==
    IF Value(ctx, loggerKey) # Nil THEN Value(ctx, loggerKey)[1]
    ELSE DefaultLogger

\* (mutant) only the context's own enablement map, which a context never
\* changes, decides the scope gate
FromPassesScopeCtxOnly(ctx, cfg) ==
    cfg.scope = 0 \/ ctxEnabled(cfg.scope, ctx)

\* From gets past the scope check
FromPassesScope(ctx, cfg) == cfg.scope = 0 \/ isActive(cfg.scope, ctx)

\* (mutant) the draw is made before the scope is looked at
FromDrawsFirst(ctx, cfg) == cfg.sampling # Nil

\* (mutant) the draw is made before the rate is looked at
FromDrawsUnsampled(ctx, cfg) == FromPassesScope(ctx, cfg)

\* From reaches the sampling block and draws
FromDraws(ctx, cfg) == FromPassesScope(ctx, cfg) /\ cfg.sampling # Nil

\* the sampling check discards
SamplingDiscards(randVal, rate) == Gt(randVal, rate)

\* (mutant) the condition is called before the sampling check
FromCallsCondBeforeSampling(ctx, cfg, randVal) ==
    FromPassesScope(ctx, cfg) /\ cfg.condition # Nil

\* From reaches the condition block and calls the condition
FromCallsCond(ctx, cfg, randVal) ==
    /\ FromPassesScope(ctx, cfg)
    /\ cfg.sampling # Nil => ~SamplingDiscards(randVal[1], cfg.sampling[1])
    /\ cfg.condition # Nil

\* (mutant) the field names the parent when the parent's activation is what
\* made the scope active
FromLoggerNamesParent(ctx, cfg, randVal) ==
    IF ~FromPassesScope(ctx, cfg) THEN createDiscardLogger
    ELSE IF cfg.sampling # Nil /\ SamplingDiscards(randVal[1], cfg.sampling[1])
    THEN createDiscardLogger
    ELSE IF cfg.condition # Nil /\ ~cfg.condition[1].result
    THEN createDiscardLogger
    ELSE IF cfg.scope # 0
    THEN LoggerWith(baseLogger(ctx), "ctxlog.scope",
                    IF /\ ~ctxEnabled(cfg.scope, ctx)
                       /\ ~globalEnabled(cfg.scope)
                       /\ scopes[cfg.scope].parent # 0
                    THEN scopes[scopes[cfg.scope].parent].name
                    ELSE scopes[cfg.scope].name)
    ELSE baseLogger(ctx)

\* (mutant) the condition is not consulted
FromLoggerWithoutCond(ctx, cfg, randVal) ==
    IF ~FromPassesScope(ctx, cfg) THEN createDiscardLogger
    ELSE IF cfg.sampling # Nil /\ SamplingDiscards(randVal[1], cfg.sampling[1])
    THEN createDiscardLogger
    ELSE IF cfg.scope # 0
    THEN LoggerWith(baseLogger(ctx), "ctxlog.scope", scopes[cfg.scope].name)
    ELSE baseLogger(ctx)

\* (mutant) a failed sample does not discard
FromLoggerKeepsSample(ctx, cfg, randVal) ==
    IF ~FromPassesScope(ctx, cfg) THEN createDiscardLogger
    ELSE IF cfg.condition # Nil /\ ~cfg.condition[1].result
    THEN createDiscardLogger
    ELSE IF cfg.scope # 0
    THEN LoggerWith(baseLogger(ctx), "ctxlog.scope", scopes[cfg.scope].name)
    ELSE baseLogger(ctx)

\* the logger From returns; randVal is Ptr(the draw) when one was made
FromLogger(ctx, cfg, randVal) ==
    IF ~FromPassesScope(ctx, cfg) THEN createDiscardLogger
    ELSE IF cfg.sampling # Nil /\ SamplingDiscards(randVal[1], cfg.sampling[1])
    THEN createDiscardLogger
    ELSE IF cfg.condition # Nil /\ ~cfg.condition[1].result
    THEN createDiscardLogger
    ELSE IF cfg.scope # 0
    THEN LoggerWith(baseLogger(ctx), "ctxlog.scope", scopes[cfg.scope].name)
    ELSE baseLogger(ctx)

\* every [pool, val] the random source From uses can give
FromRandom(cfg, fills, draws) ==
    IF cfg.fastRand THEN fastRandFloat64(globalRandPool, draws)
    ELSE cryptoRandFloat64(globalRandPool, fills)

\* From's outcome: the call, the logger returned, the draw made (Nil when
\* none was) and the number of times the condition was called
ReturnLogger(ctx, options, logger, randVal, condCalls) ==
    [kind |-> "logger", ctx |-> ctx, options |-> options, logger |-> logger,
     randVal |-> randVal, condCalls |-> condCalls]

Callers == 1..NumCallers

\* a goroutine between calls: no statement to execute, no arguments, no locals
IdleCaller ==
    [pc |-> "idle", val |-> ZeroWord, slot |-> 0, op |-> "", name |-> "",
     options |-> <<>>, scope |-> 0, args |-> <<>>, child |-> 0, ctx |-> 0,
     stack |-> <<>>, found |-> FALSE, seen |-> {}, existing |-> Nil,
     contextScopes |-> 0, i |-> 0]

\* a sync.RWMutex nobody holds: no writer, no readers
Unlocked == [writer |-> 0, readers |-> {}]

ReturnWord(g, val) == [kind |-> "word", caller |-> g, val |-> val]

\* a log call's outcome: the From call the logger came from, and the call
ReturnLog(from, level, msg) ==
    [kind |-> "log", ctx |-> from.ctx, options |-> from.options,
     logger |-> from.logger, randVal |-> from.randVal,
     condCalls |-> from.condCalls, level |-> level, msg |-> msg]

ReturnCapture(c, k) == [kind |-> "capture", ctx |-> c, capture |-> k]
ReturnMessages(k, messages) ==
    [kind |-> "messages", capture |-> k, messages |-> messages]
ReturnRecords(k, records) ==
    [kind |-> "records", capture |-> k, records |-> records]

-----------------------------------------------------------------------------
(* Operations *)

Init ==
    /\ scopes = <<>>
    /\ globalScopes = [n \in {} |-> 0]
    /\ enabledScopes = [n \in {} |-> 0]
    /\ environ = [v \in {} |-> ""]
    /\ ctxs = <<Background>>
    /\ maps = <<>>
    /\ globalRandPool = initialRandPool
    /\ captures = <<>>
    /\ callers = [g \in Callers |-> IdleCaller]
    /\ mu = 0
    /\ handed = [filled |-> FALSE, slots |-> <<>>]
    /\ ret = ReturnVoid
    /\ locks = [scopesMu |-> Unlocked, enabledMu |-> Unlocked,
                scopeMu |-> [s \in {} |-> Unlocked]]

NewScope(name, options) ==
    /\ Len(name) <= MaxNameLen
    /\ scopes' = NewScopeHeap(globalScopes, scopes, name, options)
    /\ globalScopes' = NewScopeRegistry(globalScopes, scopes, name, options)
    /\ ret' = ReturnScope(NewScopeResult(globalScopes, scopes, name, options))
    /\ UNCHANGED <<enabledScopes, environ, ctxs, maps, globalRandPool,
                   captures, callers, mu, handed, locks>>

NewChild(s, name, options) ==
    /\ Len(fullName(s, name)) <= MaxNameLen
    /\ Len(scopes[s].children) < MaxChildren
    /\ scopes' = NewChildHeap(s, name, options)
    /\ globalScopes' =
           NewScopeRegistry(globalScopes, scopes, fullName(s, name), options)
    /\ ret' = ReturnScope(NewScopeResult(globalScopes, scopes,
                                         fullName(s, name), options))
    /\ UNCHANGED <<enabledScopes, environ, ctxs, maps, globalRandPool,
                   captures, callers, mu, handed, locks>>

EnableScope(ctx, ss) ==
    /\ Len(ctxs) < MaxCtx
    /\ maps' = EnableScopeAlloc(ctx, ss).maps
    /\ ctxs' = Append(ctxs, WithValue(ctx, enabledScopesKey,
                                      EnableScopeAlloc(ctx, ss).ref))
    /\ ret' = ReturnCtx(Len(ctxs) + 1)
    /\ UNCHANGED <<scopes, globalScopes, enabledScopes, environ,
                   globalRandPool, captures, callers, mu, handed, locks>>

WithLogLevel(ctx, level) ==
    /\ Len(ctxs) < MaxCtx
    /\ ctxs' = Append(ctxs, WithValue(ctx, logLevelKey, level))
    /\ ret' = ReturnCtx(Len(ctxs) + 1)
    /\ UNCHANGED <<scopes, globalScopes, enabledScopes, environ, maps,
                   globalRandPool, captures, callers, mu, handed, locks>>

EnableScopeGlobal(ss) ==
    /\ ret' = ReturnVoid
    /\ enabledScopes' = EnableScopeGlobalMap(enabledScopes, ss)
    /\ UNCHANGED <<scopes, globalScopes, environ, ctxs, maps, globalRandPool,
                   captures, callers, mu, handed, locks>>

DisableScopeGlobal(ss) ==
    /\ ret' = ReturnVoid
    /\ enabledScopes' = DisableScopeGlobalMap(enabledScopes, ss)
    /\ UNCHANGED <<scopes, globalScopes, environ, ctxs, maps, globalRandPool,
                   captures, callers, mu, handed, locks>>

Setenv(v, value) ==
    /\ environ' = (v :> value) @@ environ
    /\ ret' = ReturnVoid
    /\ UNCHANGED <<scopes, globalScopes, enabledScopes, ctxs, maps,
                   globalRandPool, captures, callers, mu, handed, locks>>

Unsetenv(v) ==
    /\ environ' = [w \in DOMAIN environ \ {v} |-> environ[w]]
    /\ ret' = ReturnVoid
    /\ UNCHANGED <<scopes, globalScopes, enabledScopes, ctxs, maps,
                   globalRandPool, captures, callers, mu, handed, locks>>

\* From(ctx, options...); fills and draws are what the two random sources
\* may produce
From(ctx, options, fills, draws) ==
    /\ IF FromDraws(ctx, config(options))
       THEN \E o \in FromRandom(config(options), fills, draws) :
                /\ globalRandPool' = o.pool
                /\ ret' = ReturnLogger(ctx, options,
                       FromLogger(ctx, config(options), Ptr(o.val)),
                       Ptr(o.val),
                       IF FromCallsCond(ctx, config(options), Ptr(o.val))
                       THEN 1 ELSE 0)
       ELSE /\ globalRandPool' = globalRandPool
            /\ ret' = ReturnLogger(ctx, options,
                   FromLogger(ctx, config(options), Nil),
                   Nil,
                   IF FromCallsCond(ctx, config(options), Nil) THEN 1 ELSE 0)
    /\ UNCHANGED <<scopes, globalScopes, enabledScopes, environ, ctxs, maps,
                   captures, callers, mu, handed, locks>>

\* With(ctx, logger)
With(ctx, logger) ==
    /\ Len(ctxs) < MaxCtx
    /\ ctxs' = Append(ctxs, WithValue(ctx, loggerKey, logger))
    /\ ret' = ReturnCtx(Len(ctxs) + 1)
    /\ UNCHANGED <<scopes, globalScopes, enabledScopes, environ, maps,
                   globalRandPool, captures, callers, mu, handed, locks>>

\* NewCapture(ctx)
NewCapture(ctx) ==
    /\ Len(ctxs) < MaxCtx
    /\ captures' = Append(captures, [records |-> <<>>])
    /\ ctxs' = Append(ctxs, WithValue(ctx, loggerKey,
                                      CaptureLogger(Len(captures) + 1)))
    /\ ret' = ReturnCapture(Len(ctxs) + 1, Len(captures) + 1)
    /\ UNCHANGED <<scopes, globalScopes, enabledScopes, environ, maps,
                   globalRandPool, callers, mu, handed, locks>>

\* logger.Log(level, msg) on the logger the last From call returned
Log(level, msg) ==
    /\ ret.kind \in {"logger", "log"}
    /\ CapturedCount(captures) < MaxRecords
    /\ captures' = LoggerLog(captures, ret.logger, level, msg)
    /\ ret' = ReturnLog(ret, level, msg)
    /\ UNCHANGED <<scopes, globalScopes, enabledScopes, environ, ctxs, maps,
                   globalRandPool, callers, mu, handed, locks>>

\* capture.Messages()
Messages(k) ==
    /\ ret' = ReturnMessages(k, MessagesOf(captures[k]))
    /\ UNCHANGED <<scopes, globalScopes, enabledScopes, environ, ctxs, maps,
                   globalRandPool, captures, callers, mu, handed, locks>>

\* capture.Records()
Records(k) ==
    /\ ret' = ReturnRecords(k, RecordsOf(captures[k]))
    /\ UNCHANGED <<scopes, globalScopes, enabledScopes, environ, ctxs, maps,
                   globalRandPool, captures, callers, mu, handed, locks>>

-----------------------------------------------------------------------------
(* getUint64 statement by statement, one goroutine g at a time.  The pc of *)
(* a goroutine is the statement it executes next.                          *)

\* (mutant) the mutex excludes nobody
CanLockAlways(holder) == TRUE

\* rp.mu.Lock() returns once no goroutine holds the mutex
CanLock(holder) == holder = 0

\* rp.mu.Lock()
PoolLock(g) ==
    /\ callers[g].pc = "idle"
    /\ CanLock(mu)
    /\ mu' = g
    /\ callers' = [callers EXCEPT ![g].pc = "check"]
    /\ UNCHANGED <<scopes, globalScopes, enabledScopes, environ, ctxs, maps,
                   globalRandPool, captures, handed, ret, locks>>

\* if rp.pos >= len(rp.buffer)
PoolCheck(g) ==
    /\ callers[g].pc = "check"
    /\ callers' = [callers EXCEPT ![g].pc =
           IF globalRandPool.pos >= Len(globalRandPool.buffer)
           THEN "refill" ELSE "read"]
    /\ UNCHANGED <<scopes, globalScopes, enabledScopes, environ, ctxs, maps,
                   globalRandPool, captures, mu, handed, ret, locks>>

\* rp.refillBuffer(): rand.Read fills the buffer and the cursor goes to 0, or
\* it fails and getUint64 returns 0; fills is what rand.Read may produce
PoolRefill(g, fills) ==
    /\ callers[g].pc = "refill"
    /\ \/ \E b \in fills :
              /\ globalRandPool' = refillBuffer(globalRandPool, b)
              /\ callers' = [callers EXCEPT ![g].pc = "read"]
              /\ handed' = [filled |-> TRUE, slots |-> <<>>]
       \/ /\ callers' = [callers EXCEPT ![g].pc = "unlock",
                                         ![g].val = ZeroWord,
                                         ![g].slot = 0]
          /\ UNCHANGED <<globalRandPool, handed>>
    /\ UNCHANGED <<scopes, globalScopes, enabledScopes, environ, ctxs, maps,
                   captures, mu, ret, locks>>

\* val := rp.buffer[rp.pos]; an index past the buffer panics
PoolRead(g) ==
    /\ callers[g].pc = "read"
    /\ callers' =
           IF globalRandPool.pos < Len(globalRandPool.buffer)
           THEN [callers EXCEPT
                    ![g].pc = "incr",
                    ![g].val = globalRandPool.buffer[globalRandPool.pos + 1],
                    ![g].slot = globalRandPool.pos + 1]
           ELSE [callers EXCEPT ![g].pc = "panic"]
    /\ UNCHANGED <<scopes, globalScopes, enabledScopes, environ, ctxs, maps,
                   globalRandPool, captures, mu, handed, ret, locks>>

\* rp.pos++
PoolIncr(g) ==
    /\ callers[g].pc = "incr"
    /\ globalRandPool' = [globalRandPool EXCEPT !.pos = @ + 1]
    /\ callers' = [callers EXCEPT ![g].pc = "unlock"]
    /\ UNCHANGED <<scopes, globalScopes, enabledScopes, environ, ctxs, maps,
                   captures, mu, handed, ret, locks>>

\* return val, with the deferred rp.mu.Unlock()
PoolUnlock(g) ==
    /\ callers[g].pc = "unlock"
    /\ mu' = 0
    /\ callers' = [callers EXCEPT ![g].pc = "idle", ![g].slot = 0]
    /\ handed' = IF callers[g].slot # 0
                 THEN [handed EXCEPT !.slots = Append(@, callers[g].slot)]
                 ELSE handed
    /\ ret' = ReturnWord(g, callers[g].val)
    /\ UNCHANGED <<scopes, globalScopes, enabledScopes, environ, ctxs, maps,
                   globalRandPool, captures, locks>>

-----------------------------------------------------------------------------
(* NewScope, NewChild, isActive, EnableScopeGlobal, DisableScopeGlobal and  *)
(* GetGlobalEnabledScopes statement by statement, one goroutine g at a      *)
(* time.  A call takes the goroutine from "idle" to the first statement;    *)
(* the last statement returns and leaves the outcome in ret.                *)

\* (mutant) Lock() excludes nobody
CanWLockAlways(l) == TRUE

\* Lock() returns once nobody holds the RWMutex
CanWLock(l) == l.writer = 0 /\ l.readers = {}

\* (mutant) a reader does not wait for the writer
CanRLockDespiteWriter(l) == TRUE

\* RLock() returns once no writer holds the RWMutex
CanRLock(l) == l.writer = 0

\* the mu of scope s
ScopeMu(s) ==
    IF s \in DOMAIN locks.scopeMu THEN locks.scopeMu[s] ELSE Unlocked

\* the goroutine after its call has returned
Returned(g) == [IdleCaller EXCEPT !.val = callers[g].val]

\* history: the goroutines cs after a step that changed a store; each one
\* inside isActive has seen the activation the new stores give the scope and
\* the context it was called with
Observed(cs) ==
    [h \in Callers |->
        IF cs[h].op = "isActive"
        THEN [cs[h] EXCEPT !.seen =
                 @ \cup UNION {{(isActive(s, c))'} :
                                   s \in {cs[h].scope}, c \in {cs[h].ctx}}]
        ELSE cs[h]]

ReturnActive(s, c, active, seen) ==
    [kind |-> "active", scope |-> s, ctx |-> c, active |-> active,
     seen |-> seen]

ReturnScopes(scopeList) == [kind |-> "scopes", scopes |-> scopeList]

\* the orders in which ranging over a map can give its values
Orderings(m) ==
    {q \in [1..Cardinality(DOMAIN m) -> {m[n] : n \in DOMAIN m}] :
         \A i, j \in DOMAIN q : q[i] = q[j] => i = j}

\* go NewScope(name, options...)
CallNewScope(g, name, options) ==
    /\ callers[g].pc = "idle"
    /\ Len(name) <= MaxNameLen
    /\ callers' = [callers EXCEPT ![g].pc = "ns_lock",
                                  ![g].op = "NewScope",
                                  ![g].name = name,
                                  ![g].options = options]
    /\ UNCHANGED <<scopes, globalScopes, enabledScopes, environ, ctxs, maps,
                   globalRandPool, captures, mu, handed, ret, locks>>

\* go s.NewChild(name, options...): fullName := s.name + "." + name, then
\* the statements of NewScope(fullName, options...)
CallNewChild(g, s, name, options) ==
    /\ callers[g].pc = "idle"
    /\ Len(fullName(s, name)) <= MaxNameLen
    /\ Len(scopes[s].children)
           + Cardinality({h \in Callers : /\ callers[h].op = "NewChild"
                                          /\ callers[h].scope = s})
         < MaxChildren
    /\ callers' = [callers EXCEPT ![g].pc = "ns_lock",
                                  ![g].op = "NewChild",
                                  ![g].scope = s,
                                  ![g].name = fullName(s, name),
                                  ![g].options = options]
    /\ UNCHANGED <<scopes, globalScopes, enabledScopes, environ, ctxs, maps,
                   globalRandPool, captures, mu, handed, ret, locks>>

\* scopesMu.Lock()
NsLock(g) ==
    /\ callers[g].pc = "ns_lock"
    /\ CanWLock(locks.scopesMu)
    /\ locks' = [locks EXCEPT !.scopesMu.writer = g]
    /\ callers' = [callers EXCEPT ![g].pc = "ns_check"]
    /\ UNCHANGED <<scopes, globalScopes, enabledScopes, environ, ctxs, maps,
                   globalRandPool, captures, mu, handed, ret>>

\* if existing, exists := globalScopes[name]; exists { return existing }
NsCheck(g) ==
    /\ callers[g].pc = "ns_check"
    /\ callers' =
           IF callers[g].name \in DOMAIN globalScopes
           THEN [callers EXCEPT ![g].pc = "ns_unlock",
                                ![g].child = globalScopes[callers[g].name]]
           ELSE [callers EXCEPT ![g].pc = "ns_create"]
    /\ UNCHANGED <<scopes, globalScopes, enabledScopes, environ, ctxs, maps,
                   globalRandPool, captures, mu, handed, ret, locks>>

\* scope := &Scope{...} with the options applied
NsCreate(g) ==
    /\ callers[g].pc = "ns_create"
    /\ scopes' = Append(scopes, NewScopeObject(callers[g].name,
                                               callers[g].options))
    /\ callers' = [callers EXCEPT ![g].pc = "ns_register",
                                  ![g].child = Len(scopes) + 1]
    /\ UNCHANGED <<globalScopes, enabledScopes, environ, ctxs, maps,
                   globalRandPool, captures, mu, handed, ret, locks>>

\* globalScopes[name] = scope
NsRegister(g) ==
    /\ callers[g].pc = "ns_register"
    /\ globalScopes' = (callers[g].name :> callers[g].child) @@ globalScopes
    /\ callers' = [callers EXCEPT ![g].pc = "ns_unlock"]
    /\ UNCHANGED <<scopes, enabledScopes, environ, ctxs, maps,
                   globalRandPool, captures, mu, handed, ret, locks>>

\* (mutant) NewChild keeps scopesMu when NewScope returns to it
NsUnlockKeepsLock(g) ==
    /\ callers[g].pc = "ns_unlock"
    /\ IF callers[g].op = "NewScope"
       THEN /\ locks' = [locks EXCEPT !.scopesMu.writer = 0]
            /\ callers' = [callers EXCEPT ![g] = Returned(g)]
            /\ ret' = ReturnScope(callers[g].child)
       ELSE /\ locks' = locks
            /\ callers' = [callers EXCEPT ![g].pc = "nc_parent"]
            /\ ret' = ret
    /\ UNCHANGED <<scopes, globalScopes, enabledScopes, environ, ctxs, maps,
                   globalRandPool, captures, mu, handed>>

\* return, with the deferred scopesMu.Unlock(): NewScope is done, NewChild
\* goes on with the scope it got
NsUnlock(g) ==
    /\ callers[g].pc = "ns_unlock"
    /\ locks' = [locks EXCEPT !.scopesMu.writer = 0]
    /\ IF callers[g].op = "NewScope"
       THEN /\ callers' = [callers EXCEPT ![g] = Returned(g)]
            /\ ret' = ReturnScope(callers[g].child)
       ELSE /\ callers' = [callers EXCEPT ![g].pc = "nc_parent"]
            /\ ret' = ret
    /\ UNCHANGED <<scopes, globalScopes, enabledScopes, environ, ctxs, maps,
                   globalRandPool, captures, mu, handed>>

\* child.parent = s
NcParent(g) ==
    /\ callers[g].pc = "nc_parent"
    /\ scopes' = [scopes EXCEPT ![callers[g].child].parent = callers[g].scope]
    /\ UNCHANGED <<globalScopes, enabledScopes, environ, ctxs, maps,
                   globalRandPool, captures, mu, handed, ret, locks>>
    /\ callers' = Observed([callers EXCEPT ![g].pc = "nc_lock"])

\* s.mu.Lock()
NcLock(g) ==
    /\ callers[g].pc = "nc_lock"
    /\ CanWLock(ScopeMu(callers[g].scope))
    /\ locks' = [locks EXCEPT !.scopeMu =
                     (callers[g].scope :> [writer |-> g, readers |-> {}]) @@ @]
    /\ callers' = [callers EXCEPT ![g].pc = "nc_append"]
    /\ UNCHANGED <<scopes, globalScopes, enabledScopes, environ, ctxs, maps,
                   globalRandPool, captures, mu, handed, ret>>

\* s.children = append(s.children, child)
NcAppend(g) ==
    /\ callers[g].pc = "nc_append"
    /\ scopes' = [scopes EXCEPT ![callers[g].scope].children =
                      Append(@, callers[g].child)]
    /\ callers' = [callers EXCEPT ![g].pc = "nc_unlock"]
    /\ UNCHANGED <<globalScopes, enabledScopes, environ, ctxs, maps,
                   globalRandPool, captures, mu, handed, ret, locks>>

\* s.mu.Unlock(); return child
NcUnlock(g) ==
    /\ callers[g].pc = "nc_unlock"
    /\ locks' = [locks EXCEPT !.scopeMu =
                     [s \in DOMAIN @ \ {callers[g].scope} |-> @[s]]]
    /\ callers' = [callers EXCEPT ![g] = Returned(g)]
    /\ ret' = ReturnScope(callers[g].child)
    /\ UNCHANGED <<scopes, globalScopes, enabledScopes, environ, ctxs, maps,
                   globalRandPool, captures, mu, handed>>

\* go s.isActive(ctx)
CallIsActive(g, s, ctx) ==
    /\ callers[g].pc = "idle"
    /\ callers' = [callers EXCEPT ![g].pc = "ia_ctx",
                                  ![g].op = "isActive",
                                  ![g].scope = s,
                                  ![g].ctx = ctx,
                                  ![g].stack = <<s>>,
                                  ![g].seen = {isActive(s, ctx)}]
    /\ UNCHANGED <<scopes, globalScopes, enabledScopes, environ, ctxs, maps,
                   globalRandPool, captures, mu, handed, ret, locks>>

\* isActive returns to its first caller: every frame above returns true as
\* soon as the one below did
IaReturn(g, active) ==
    /\ callers' = [callers EXCEPT ![g] = Returned(g)]
    /\ ret' = ReturnActive(callers[g].scope, callers[g].ctx, active,
                           callers[g].seen)

\* 1. the check of the context's map, in the frame on top of the stack
IaCtx(g) ==
    /\ callers[g].pc = "ia_ctx"
    /\ IF ctxEnabled(Head(callers[g].stack), callers[g].ctx)
       THEN IaReturn(g, TRUE)
       ELSE /\ callers' = [callers EXCEPT ![g].pc = "ia_rlock"]
            /\ ret' = ret
    /\ UNCHANGED <<scopes, globalScopes, enabledScopes, environ, ctxs, maps,
                   globalRandPool, captures, mu, handed, locks>>

\* enabledMu.RLock()
IaRLock(g) ==
    /\ callers[g].pc = "ia_rlock"
    /\ CanRLock(locks.enabledMu)
    /\ locks' = [locks EXCEPT !.enabledMu.readers = @ \cup {g}]
    /\ callers' = [callers EXCEPT ![g].pc = "ia_read"]
    /\ UNCHANGED <<scopes, globalScopes, enabledScopes, environ, ctxs, maps,
                   globalRandPool, captures, mu, handed, ret>>

\* (mutant) any entry of the store counts, whatever its name
IaReadAnyEntry(g) ==
    /\ callers[g].pc = "ia_read"
    /\ callers' = [callers EXCEPT ![g].pc = "ia_runlock",
                                  ![g].found = DOMAIN enabledScopes # {}]
    /\ UNCHANGED <<scopes, globalScopes, enabledScopes, environ, ctxs, maps,
                   globalRandPool, captures, mu, handed, ret, locks>>

\* 2. _, exists := enabledScopes[s.name]
IaRead(g) ==
    /\ callers[g].pc = "ia_read"
    /\ callers' = [callers EXCEPT
                      ![g].pc = "ia_runlock",
                      ![g].found = globalEnabled(Head(callers[g].stack))]
    /\ UNCHANGED <<scopes, globalScopes, enabledScopes, environ, ctxs, maps,
                   globalRandPool, captures, mu, handed, ret, locks>>

\* enabledMu.RUnlock(), and return true if the name was there
IaRUnlock(g) ==
    /\ callers[g].pc = "ia_runlock"
    /\ locks' = [locks EXCEPT !.enabledMu.readers = @ \ {g}]
    /\ IF callers[g].found
       THEN IaReturn(g, TRUE)
       ELSE /\ callers' = [callers EXCEPT ![g].pc = "ia_parent"]
            /\ ret' = ret
    /\ UNCHANGED <<scopes, globalScopes, enabledScopes, environ, ctxs, maps,
                   globalRandPool, captures, mu, handed>>

\* 3. if s.parent != nil && s.parent.isActive(ctx): the parent's frame is
\* pushed
IaParent(g) ==
    /\ callers[g].pc = "ia_parent"
    /\ callers' =
           IF scopes[Head(callers[g].stack)].parent # 0
           THEN [callers EXCEPT
                    ![g].pc = "ia_ctx",
                    ![g].stack = <<scopes[Head(@)].parent>> \o @]
           ELSE [callers EXCEPT ![g].pc = "ia_level"]
    /\ UNCHANGED <<scopes, globalScopes, enabledScopes, environ, ctxs, maps,
                   globalRandPool, captures, mu, handed, ret, locks>>

\* 4. the level threshold
IaLevel(g) ==
    /\ callers[g].pc = "ia_level"
    /\ IF levelMet(Head(callers[g].stack), callers[g].ctx)
       THEN IaReturn(g, TRUE)
       ELSE /\ callers' = [callers EXCEPT ![g].pc = "ia_env"]
            /\ ret' = ret
    /\ UNCHANGED <<scopes, globalScopes, enabledScopes, environ, ctxs, maps,
                   globalRandPool, captures, mu, handed, locks>>

\* 5. the environment variables, and return false: the frame below goes on
\* with its level threshold
IaEnv(g) ==
    /\ callers[g].pc = "ia_env"
    /\ IF envPresent(Head(callers[g].stack))
       THEN IaReturn(g, TRUE)
       ELSE IF Len(callers[g].stack) = 1
       THEN IaReturn(g, FALSE)
       ELSE /\ callers' = [callers EXCEPT ![g].pc = "ia_level",
                                          ![g].stack = Tail(@)]
            /\ ret' = ret
    /\ UNCHANGED <<scopes, globalScopes, enabledScopes, environ, ctxs, maps,
                   globalRandPool, captures, mu, handed, locks>>

\* go EnableScopeGlobal(scopes...)
CallEnableScopeGlobal(g, ss) ==
    /\ callers[g].pc = "idle"
    /\ callers' = [callers EXCEPT ![g].pc = "eg_lock",
                                  ![g].op = "EnableScopeGlobal",
                                  ![g].args = ss]
    /\ UNCHANGED <<scopes, globalScopes, enabledScopes, environ, ctxs, maps,
                   globalRandPool, captures, mu, handed, ret, locks>>

\* go DisableScopeGlobal(scopes...)
CallDisableScopeGlobal(g, ss) ==
    /\ callers[g].pc = "idle"
    /\ callers' = [callers EXCEPT ![g].pc = "eg_lock",
                                  ![g].op = "DisableScopeGlobal",
                                  ![g].args = ss]
    /\ UNCHANGED <<scopes, globalScopes, enabledScopes, environ, ctxs, maps,
                   globalRandPool, captures, mu, handed, ret, locks>>

\* enabledMu.Lock()
EgLock(g) ==
    /\ callers[g].pc = "eg_lock"
    /\ CanWLock(locks.enabledMu)
    /\ locks' = [locks EXCEPT !.enabledMu.writer = g]
    /\ callers' = [callers EXCEPT ![g].pc = IF callers[g].args = <<>>
                                            THEN "eg_unlock" ELSE "eg_write"]
    /\ UNCHANGED <<scopes, globalScopes, enabledScopes, environ, ctxs, maps,
                   globalRandPool, captures, mu, handed, ret>>

\* one turn of the loop over the scopes: enabledScopes[scope.name] = scope,
\* or delete(enabledScopes, scope.name), for the next of the given scopes
EgWrite(g) ==
    /\ callers[g].pc = "eg_write"
    /\ enabledScopes' =
           IF callers[g].op = "EnableScopeGlobal"
           THEN EnableScopeGlobalMap(enabledScopes,
                                     <<callers[g].args[callers[g].i + 1]>>)
           ELSE DisableScopeGlobalMap(enabledScopes,
                                      <<callers[g].args[callers[g].i + 1]>>)
    /\ UNCHANGED <<scopes, globalScopes, environ, ctxs, maps,
                   globalRandPool, captures, mu, handed, ret, locks>>
    /\ callers' = Observed([callers EXCEPT
                               ![g].i = @ + 1,
                               ![g].pc = IF callers[g].i + 1 = Len(callers[g].args)
                                         THEN "eg_unlock" ELSE "eg_write"])

\* return, with the deferred enabledMu.Unlock()
EgUnlock(g) ==
    /\ callers[g].pc = "eg_unlock"
    /\ locks' = [locks EXCEPT !.enabledMu.writer = 0]
    /\ callers' = [callers EXCEPT ![g] = Returned(g)]
    /\ ret' = ReturnVoid
    /\ UNCHANGED <<scopes, globalScopes, enabledScopes, environ, ctxs, maps,
                   globalRandPool, captures, mu, handed>>

\* go GetGlobalEnabledScopes()
CallGetGlobalEnabledScopes(g) ==
    /\ callers[g].pc = "idle"
    /\ callers' = [callers EXCEPT ![g].pc = "gg_rlock",
                                  ![g].op = "GetGlobalEnabledScopes"]
    /\ UNCHANGED <<scopes, globalScopes, enabledScopes, environ, ctxs, maps,
                   globalRandPool, captures, mu, handed, ret, locks>>

\* enabledMu.RLock()
GgRLock(g) ==
    /\ callers[g].pc = "gg_rlock"
    /\ CanRLock(locks.enabledMu)
    /\ locks' = [locks EXCEPT !.enabledMu.readers = @ \cup {g}]
    /\ callers' = [callers EXCEPT ![g].pc = "gg_copy"]
    /\ UNCHANGED <<scopes, globalScopes, enabledScopes, environ, ctxs, maps,
                   globalRandPool, captures, mu, handed, ret>>

\* the loop that appends every value of enabledScopes to the result
GgCopy(g) ==
    /\ callers[g].pc = "gg_copy"
    /\ \E q \in Orderings(enabledScopes) :
           callers' = [callers EXCEPT ![g].pc = "gg_runlock", ![g].args = q]
    /\ UNCHANGED <<scopes, globalScopes, enabledScopes, environ, ctxs, maps,
                   globalRandPool, captures, mu, handed, ret, locks>>

\* return scopes: the deferred enabledMu.RUnlock() runs before the caller
\* has the list
GgRUnlock(g) ==
    /\ callers[g].pc = "gg_runlock"
    /\ locks' = [locks EXCEPT !.enabledMu.readers = @ \ {g}]
    /\ callers' = [callers EXCEPT ![g].pc = "gg_return"]
    /\ UNCHANGED <<scopes, globalScopes, enabledScopes, environ, ctxs, maps,
                   globalRandPool, captures, mu, handed, ret>>

\* the caller has the list
GgReturn(g) ==
    /\ callers[g].pc = "gg_return"
    /\ callers' = [callers EXCEPT ![g] = Returned(g)]
    /\ ret' = ReturnScopes(callers[g].args)
    /\ UNCHANGED <<scopes, globalScopes, enabledScopes, environ, ctxs, maps,
                   globalRandPool, captures, mu, handed, locks>>

\* go EnableScope(ctx, scopes...)
CallEnableScope(g, ctx, ss) ==
    /\ callers[g].pc = "idle"
    /\ Len(ctxs) + Cardinality({h \in Callers : callers[h].op = "EnableScope"})
           < MaxCtx
    /\ callers' = [callers EXCEPT ![g].pc = "es_value",
                                  ![g].op = "EnableScope",
                                  ![g].ctx = ctx,
                                  ![g].args = ss]
    /\ UNCHANGED <<scopes, globalScopes, enabledScopes, environ, ctxs, maps,
                   globalRandPool, captures, mu, handed, ret, locks>>

\* existing, ok := ctx.Value(enabledScopesKey).(map[string]bool)
EsValue(g) ==
    /\ callers[g].pc = "es_value"
    /\ callers' = [callers EXCEPT
                       ![g].pc = "es_make",
                       ![g].existing = Value(callers[g].ctx, enabledScopesKey),
                       ![g].found = Value(callers[g].ctx, enabledScopesKey) # Nil]
    /\ UNCHANGED <<scopes, globalScopes, enabledScopes, environ, ctxs, maps,
                   globalRandPool, captures, mu, handed, ret, locks>>

\* (mutant) no map is made while one exists: contextScopes is the map made
\* last
EsMakeReusesMap(g) ==
    /\ callers[g].pc = "es_make"
    /\ maps' = IF Len(maps) = 0 THEN Append(maps, EmptyMap) ELSE maps
    /\ callers' = [callers EXCEPT
                       ![g].pc = IF callers[g].found THEN "es_copy" ELSE "es_add",
                       ![g].contextScopes = Len(maps')]
    /\ UNCHANGED <<scopes, globalScopes, enabledScopes, environ, ctxs,
                   globalRandPool, captures, mu, handed, ret, locks>>

\* contextScopes = make(map[string]bool), in either branch
EsMake(g) ==
    /\ callers[g].pc = "es_make"
    /\ maps' = Append(maps, EmptyMap)
    /\ callers' = [callers EXCEPT
                       ![g].pc = IF callers[g].found THEN "es_copy" ELSE "es_add",
                       ![g].contextScopes = Len(maps) + 1]
    /\ UNCHANGED <<scopes, globalScopes, enabledScopes, environ, ctxs,
                   globalRandPool, captures, mu, handed, ret, locks>>

\* the loop that copies every entry of existing into contextScopes
EsCopy(g) ==
    /\ callers[g].pc = "es_copy"
    /\ maps' = [maps EXCEPT ![callers[g].contextScopes] =
                    maps[callers[g].existing[1]] @@ @]
    /\ callers' = [callers EXCEPT ![g].pc = "es_add"]
    /\ UNCHANGED <<scopes, globalScopes, enabledScopes, environ, ctxs,
                   globalRandPool, captures, mu, handed, ret, locks>>

\* the loop that sets contextScopes[scope.name] = true for every given scope
EsAdd(g) ==
    /\ callers[g].pc = "es_add"
    /\ maps' = [maps EXCEPT ![callers[g].contextScopes] =
                    SetAll(@, ScopeNamesOf(callers[g].args))]
    /\ callers' = [callers EXCEPT ![g].pc = "es_return"]
    /\ UNCHANGED <<scopes, globalScopes, enabledScopes, environ, ctxs,
                   globalRandPool, captures, mu, handed, ret, locks>>

\* return context.WithValue(ctx, enabledScopesKey, contextScopes)
EsReturn(g) ==
    /\ callers[g].pc = "es_return"
    /\ ctxs' = Append(ctxs, WithValue(callers[g].ctx, enabledScopesKey,
                                      callers[g].contextScopes))
    /\ callers' = [callers EXCEPT ![g] = Returned(g)]
    /\ ret' = ReturnCtx(Len(ctxs) + 1)
    /\ UNCHANGED <<scopes, globalScopes, enabledScopes, environ, maps,
                   globalRandPool, captures, mu, handed, locks>>

-----------------------------------------------------------------------------
(* Inputs *)

ScopePtrs == 1..Len(scopes)
CtxPtrs == 1..Len(ctxs)

\* the variadic scopes arguments: one scope, or two
OneScope == {<<s>> : s \in ScopePtrs}
ScopeArgs == OneScope \cup {p \in ScopePtrs \X ScopePtrs : p[1] < p[2]}

EnvVars == {"E1", "E2"}
\* os.Setenv calls: one variable set to the empty string, one to "1"
EnvSettings == {<<"E1", "">>, <<"E2", "1">>}
CtxLevels == {LevelInfo, LevelWarn}

\* 64-bit words rand.Read may produce: 0, 2^11 - 1 (the largest word whose
\* draw is 0), 2^63 (draw 0.5), 2^63 + 2^11 (the next draw) and 2^64 - 1
WordSeq ==
    << ZeroWord,
       <<2^(LimbBits - 1), 0, 0, 2^ieee754MantissaShift>>,
       <<0, 0, 0, 2^ieee754MantissaShift - 1>>,
       <<Limb - 1, Limb - 1, Limb - 1, Limb - 1>>,
       <<2^(LimbBits - 1), 0, 0, 0>> >>

Words == {WordSeq[i] : i \in 1..Len(WordSeq)}

\* buffers rand.Read may produce: every word, in every slot
Fills ==
    { [i \in 1..randPoolSize |-> WordSeq[((i + k) % Len(WordSeq)) + 1]] :
          k \in 1..Len(WordSeq) }

\* draws of the fast generator: the draws of those words
FastDraws == {Float64OfWord(w) : w \in Words}

Rate0 == ZeroWord
RateHalf == <<2^(ieee754MantissaBits - 3 * LimbBits - 1), 0, 0, 0>>
Rate1 == One

-----------------------------------------------------------------------------
(* The scope engine: registry, enablement stores, environment, contexts *)

RootNames == {"a"}
ShortNames == {"b"}

ScopeOptionLists ==
    { <<>>,
      <<EnabledBy(<<"E1", "E2">>), EnabledMinLevel(LevelWarn)>> }

Next ==
    \/ \E n \in RootNames, o \in ScopeOptionLists : NewScope(n, o)
    \/ \E s \in ScopePtrs, n \in ShortNames, o \in ScopeOptionLists :
           /\ fullName(s, n) \notin DOMAIN globalScopes
           /\ NewChild(s, n, o)
    \/ \E c \in CtxPtrs, ss \in OneScope : EnableScope(c, ss)
    \/ \E c \in CtxPtrs, l \in CtxLevels : WithLogLevel(c, l)
    \/ \E ss \in OneScope : EnableScopeGlobal(ss)
    \/ \E ss \in OneScope : DisableScopeGlobal(ss)
    \/ \E e \in EnvSettings : Setenv(e[1], e[2])
    \/ \E v \in EnvVars : Unsetenv(v)

Spec == Init /\ [][Next]_vars

-----------------------------------------------------------------------------
(* The registry alone: re-registration and NewChild on registered names *)

RegistryRootNames == {"a", "a.b"}
RegistryShortNames == {"b", "b.b"}

RegistryOptionLists ==
    { <<>>,
      <<EnabledBy(<<"E1", "E2">>)>>,
      <<EnabledBy(<<"E1">>), EnabledMinLevel(LevelWarn)>>,
      <<EnabledMinLevel(LevelError), EnabledBy(<<>>)>> }

NextRegistry ==
    \/ \E n \in RegistryRootNames, o \in RegistryOptionLists : NewScope(n, o)
    \/ \E s \in ScopePtrs, n \in RegistryShortNames, o \in RegistryOptionLists :
           NewChild(s, n, o)

SpecRegistry == Init /\ [][NextRegistry]_vars

-----------------------------------------------------------------------------
(* Logger resolution: From with its three gates and the random pool *)

Conditions == {[result |-> TRUE], [result |-> FALSE]}
Rates == {Rate0, RateHalf, Rate1}

FromScopeOptions == {<<>>} \cup {<<ScopeOpt(s)>> : s \in ScopePtrs}
FromSamplingOptions ==
    {<<>>} \cup {<<WithSampling(r)>> : r \in Rates}
                \cup {<<WithSampling(r), WithFastRand>> : r \in Rates}
FromCondOptions == {<<>>} \cup {<<WithCond(c)>> : c \in Conditions}

\* the options of a From call: at most one of each kind
FromOptionLists ==
    { a \o b \o c : a \in FromScopeOptions, b \in FromSamplingOptions,
                     c \in FromCondOptions }

NextFrom ==
    \/ NewScope("a", <<>>)
    \/ \E ss \in OneScope : EnableScopeGlobal(ss)
    \/ \E ss \in OneScope : DisableScopeGlobal(ss)
    \/ \E c \in CtxPtrs, o \in FromOptionLists : From(c, o, Fills, FastDraws)

SpecFrom == Init /\ [][NextFrom]_vars

-----------------------------------------------------------------------------
(* Logger binding and capture: With, NewCapture, From, log calls and the   *)
(* reads of a Capture                                                      *)

BoundLoggers == {NewLogger("x")}
LogLevels == {LevelDebug, LevelInfo}
LogMessages == {"m1", "m2"}
CapturePtrs == 1..Len(captures)

\* draws of the fast generator: 0 and the largest draw
LoggerDraws == {Float64OfWord(WordSeq[1]), Float64OfWord(WordSeq[4])}

LoggerOptionLists ==
    {<<>>, <<WithSampling(RateHalf), WithFastRand>>,
     <<WithCond([result |-> FALSE])>>}
        \cup {<<ScopeOpt(s)>> : s \in ScopePtrs}

NextLogger ==
    \/ NewScope("a", <<>>)
    \/ \E c \in CtxPtrs, ss \in OneScope : EnableScope(c, ss)
    \/ \E c \in CtxPtrs, l \in BoundLoggers : With(c, l)
    \/ \E c \in CtxPtrs : NewCapture(c)
    \/ \E c \in CtxPtrs, o \in LoggerOptionLists :
           From(c, o, Fills, LoggerDraws)
    \/ \E l \in LogLevels, t \in LogMessages : Log(l, t)
    \/ \E k \in CapturePtrs : Messages(k)
    \/ \E k \in CapturePtrs : Records(k)

SpecLogger == Init /\ [][NextLogger]_vars

-----------------------------------------------------------------------------
(* The secure pool under concurrent callers of getUint64 *)

NextPool ==
    \/ \E g \in Callers : PoolLock(g)
    \/ \E g \in Callers : PoolCheck(g)
    \/ \E g \in Callers : PoolRefill(g, Fills)
    \/ \E g \in Callers : PoolRead(g)
    \/ \E g \in Callers : PoolIncr(g)
    \/ \E g \in Callers : PoolUnlock(g)

SpecPool == Init /\ [][NextPool]_vars

-----------------------------------------------------------------------------
(* The level threshold: scopes with and without a minimum level against    *)
(* contexts with and without a current level                               *)

LevelRootNames == {"a", "c"}

LevelOptionLists ==
    { <<>>,
      <<EnabledMinLevel(LevelWarn)>>,
      <<EnabledBy(<<"E1">>), EnabledMinLevel(LevelError)>> }

LevelCtxLevels == {LevelDebug, LevelWarn, LevelError}

NextLevel ==
    \/ \E n \in LevelRootNames, o \in LevelOptionLists : NewScope(n, o)
    \/ \E c \in CtxPtrs, l \in LevelCtxLevels : WithLogLevel(c, l)
    \/ Setenv("E1", "")
    \/ Unsetenv("E1")

SpecLevel == Init /\ [][NextLevel]_vars

-----------------------------------------------------------------------------
(* The registry under concurrent callers: every goroutine calls NewScope    *)
(* and NewChild, statement by statement                                     *)

ConcRootNames == {"a"}
ConcShortNames == {"b"}
\* the same name asked for with different conditions
ConcOptionLists == {<<>>, <<EnabledBy(<<"E1">>)>>}

\* the statements of NewScope and NewChild
RegistryStep(g) ==
    \/ NsLock(g) \/ NsCheck(g) \/ NsCreate(g) \/ NsRegister(g) \/ NsUnlock(g)
    \/ NcParent(g) \/ NcLock(g) \/ NcAppend(g) \/ NcUnlock(g)

NextConcRegistry ==
    \E g \in Callers :
        \/ \E n \in ConcRootNames, o \in ConcOptionLists :
               CallNewScope(g, n, o)
        \/ \E s \in ScopePtrs, n \in ConcShortNames :
               CallNewChild(g, s, n, <<>>)
        \/ RegistryStep(g)

SpecConcRegistry == Init /\ [][NextConcRegistry]_vars

-----------------------------------------------------------------------------
(* Activation under concurrent global enablement: the scopes "a" and "a.b"  *)
(* are made while no goroutine runs; then one goroutine evaluates scopes    *)
(* and lists the enabled ones while the others enable and disable them      *)
(* globally                                                                 *)

Evaluators == {1}
Togglers == Callers \ Evaluators

\* the statements of isActive
ActiveStep(g) ==
    \/ IaCtx(g) \/ IaRLock(g) \/ IaRead(g) \/ IaRUnlock(g) \/ IaParent(g)
    \/ IaLevel(g) \/ IaEnv(g)

\* the statements of EnableScopeGlobal and DisableScopeGlobal
GlobalStep(g) == EgLock(g) \/ EgWrite(g) \/ EgUnlock(g)

\* the statements of GetGlobalEnabledScopes
ListStep(g) == GgRLock(g) \/ GgCopy(g) \/ GgRUnlock(g) \/ GgReturn(g)

NextConcActive ==
    \/ /\ \A g \in Callers : callers[g].pc = "idle"
       /\ "a" \notin DOMAIN globalScopes
       /\ NewScope("a", <<>>)
    \/ \E s \in ScopePtrs :
           /\ \A g \in Callers : callers[g].pc = "idle"
           /\ fullName(s, "b") \notin DOMAIN globalScopes
           /\ NewChild(s, "b", <<>>)
    \/ \E g \in Evaluators :
           \/ \E s \in ScopePtrs : CallIsActive(g, s, 1)
           \/ ActiveStep(g)
           \/ CallGetGlobalEnabledScopes(g)
           \/ ListStep(g)
    \/ \E g \in Togglers :
           \/ \E ss \in OneScope : CallEnableScopeGlobal(g, ss)
           \/ \E ss \in OneScope : CallDisableScopeGlobal(g, ss)
           \/ GlobalStep(g)

SpecConcActive == Init /\ [][NextConcActive]_vars

-----------------------------------------------------------------------------
(* Contexts derived concurrently: the scopes "a" and "c" are made while no  *)
(* goroutine runs; then every goroutine calls EnableScope, statement by     *)
(* statement, on any context there is                                       *)

SiblingRootNames == {"a", "c"}

\* the statements of EnableScope
EnableStep(g) == EsValue(g) \/ EsMake(g) \/ EsCopy(g) \/ EsAdd(g) \/ EsReturn(g)

NextConcEnable ==
    \/ \E n \in SiblingRootNames :
           /\ \A g \in Callers : callers[g].pc = "idle"
           /\ n \notin DOMAIN globalScopes
           /\ NewScope(n, <<>>)
    \/ \E g \in Callers :
           \/ \E c \in CtxPtrs, ss \in OneScope : CallEnableScope(g, c, ss)
           \/ EnableStep(g)

SpecConcEnable == Init /\ [][NextConcEnable]_vars

-----------------------------------------------------------------------------
(* Lineages of contexts: every operation that derives a context, on any     *)
(* context there is, with one scope or two enabled at a time                *)

LineageRootNames == {"a", "c"}

NextLineage ==
    \/ \E n \in LineageRootNames :
           /\ n \notin DOMAIN globalScopes
           /\ NewScope(n, <<>>)
    \/ \E c \in CtxPtrs, ss \in ScopeArgs : EnableScope(c, ss)
    \/ \E c \in CtxPtrs, l \in BoundLoggers : With(c, l)
    \/ \E c \in CtxPtrs, l \in CtxLevels : WithLogLevel(c, l)

SpecLineage == Init /\ [][NextLineage]_vars

-----------------------------------------------------------------------------
(* The list of enabled scopes under concurrent global enablement: the       *)
(* scopes "a" and "a.b" are made while no goroutine runs; then one          *)
(* goroutine lists the enabled scopes while the others enable and disable   *)
(* one scope or both in one call                                            *)

NextConcList ==
    \/ /\ \A g \in Callers : callers[g].pc = "idle"
       /\ "a" \notin DOMAIN globalScopes
       /\ NewScope("a", <<>>)
    \/ \E s \in ScopePtrs :
           /\ \A g \in Callers : callers[g].pc = "idle"
           /\ fullName(s, "b") \notin DOMAIN globalScopes
           /\ NewChild(s, "b", <<>>)
    \/ \E g \in Evaluators :
           \/ CallGetGlobalEnabledScopes(g)
           \/ ListStep(g)
    \/ \E g \in Togglers :
           \/ \E ss \in ScopeArgs : CallEnableScopeGlobal(g, ss)
           \/ \E ss \in ScopeArgs : CallDisableScopeGlobal(g, ss)
           \/ GlobalStep(g)

SpecConcList == Init /\ [][NextConcList]_vars

-----------------------------------------------------------------------------
(* Secure draws: From samples with the secure source from a pool that       *)
(* rand.Read fills with words made of the limbs 0, 2^11 - 1, 2^11 and       *)
(* 2^16 - 1 in every combination                                            *)

DrawLimbs == <<0, 2^ieee754MantissaShift - 1, 2^ieee754MantissaShift, Limb - 1>>

\* the k-th such word, k in 0 .. 4^4 - 1
DrawWord(k) ==
    [i \in 1..4 |-> DrawLimbs[((k \div Len(DrawLimbs)^(i - 1)) % Len(DrawLimbs)) + 1]]

DrawWords == {DrawWord(k) : k \in 0..(Len(DrawLimbs)^4 - 1)}

\* buffers rand.Read may produce: every such word, in every slot
DrawFills ==
    { [i \in 1..randPoolSize |->
          DrawWord((k + 41 * (i - 1)) % Len(DrawLimbs)^4)] :
          k \in 0..(Len(DrawLimbs)^4 - 1) }

NextDraw == \E r \in Rates : From(1, <<WithSampling(r)>>, DrawFills, {})

SpecDraw == Init /\ [][NextDraw]_vars

-----------------------------------------------------------------------------
(* The scope field: From on the scopes "a" and "a.b", either of which may   *)
(* be enabled globally, against contexts with and without a bound logger    *)

FieldOptionLists ==
    { a \o c : a \in FromScopeOptions, c \in FromCondOptions }

NextField ==
    \/ NewScope("a", <<>>)
    \/ \E s \in ScopePtrs :
           /\ fullName(s, "b") \notin DOMAIN globalScopes
           /\ NewChild(s, "b", <<>>)
    \/ \E ss \in OneScope : EnableScopeGlobal(ss)
    \/ \E ss \in OneScope : DisableScopeGlobal(ss)
    \/ \E c \in CtxPtrs, l \in BoundLoggers : With(c, l)
    \/ \E c \in CtxPtrs, o \in FieldOptionLists : From(c, o, Fills, FastDraws)

SpecField == Init /\ [][NextField]_vars

-----------------------------------------------------------------------------
(* The current level and From: the scopes "a" and "a.b", each with or       *)
(* without a minimum level, contexts that bind levels and enabled scopes,   *)
(* and From with or without a scope                                         *)

ThresholdOptionLists == {<<>>, <<EnabledMinLevel(LevelWarn)>>}
BoundLevels == {LevelInfo, LevelError}

NextCtxLevel ==
    \/ \E o \in ThresholdOptionLists : NewScope("a", o)
    \/ \E s \in ScopePtrs, o \in ThresholdOptionLists :
           /\ fullName(s, "b") \notin DOMAIN globalScopes
           /\ NewChild(s, "b", o)
    \/ \E c \in CtxPtrs, l \in BoundLevels : WithLogLevel(c, l)
    \/ \E c \in CtxPtrs, ss \in OneScope : EnableScope(c, ss)
    \/ \E c \in CtxPtrs, o \in FromScopeOptions : From(c, o, Fills, FastDraws)

SpecCtxLevel == Init /\ [][NextCtxLevel]_vars

-----------------------------------------------------------------------------
(* The global store alone: scopes are made, with or without conditions, and *)
(* enabled and disabled globally, one or two in a call, any number of times *)

NextGlobal ==
    \/ \E o \in ScopeOptionLists : NewScope("a", o)
    \/ \E s \in ScopePtrs, o \in ScopeOptionLists :
           /\ fullName(s, "b") \notin DOMAIN globalScopes
           /\ NewChild(s, "b", o)
    \/ \E ss \in ScopeArgs : EnableScopeGlobal(ss)
    \/ \E ss \in ScopeArgs : DisableScopeGlobal(ss)

SpecGlobal == Init /\ [][NextGlobal]_vars

-----------------------------------------------------------------------------
(* Options given twice: From with no scope or two, no rate or two          *)
(* different ones and no condition or two different ones, on the scopes    *)
(* "a" and "c", either of which may be enabled globally                    *)

TwiceRootNames == {"a", "c"}

TwiceScopeOptions ==
    {<<>>} \cup {<<ScopeOpt(s), ScopeOpt(t)>> : s \in ScopePtrs, t \in ScopePtrs}
TwiceSamplingOptions ==
    {<<>>} \cup {<<WithSampling(p[1]), WithSampling(p[2]), WithFastRand>> :
                     p \in {<<Rate0, Rate1>>, <<Rate1, Rate0>>}}
TwiceCondOptions ==
    {<<>>} \cup {<<WithCond(p[1]), WithCond(p[2])>> :
                     p \in {q \in Conditions \X Conditions : q[1] # q[2]}}

TwiceOptionLists ==
    { a \o b \o c : a \in TwiceScopeOptions, b \in TwiceSamplingOptions,
                     c \in TwiceCondOptions }

NextTwice ==
    \/ \E n \in TwiceRootNames :
           /\ n \notin DOMAIN globalScopes
           /\ NewScope(n, <<>>)
    \/ \E ss \in OneScope : EnableScopeGlobal(ss)
    \/ \E ss \in OneScope : DisableScopeGlobal(ss)
    \/ \E o \in TwiceOptionLists : From(1, o, Fills, LoggerDraws)

SpecTwice == Init /\ [][NextTwice]_vars

-----------------------------------------------------------------------------
(* The locks under contention: goroutines call NewScope, NewChild,          *)
(* isActive, EnableScopeGlobal and getUint64, which between them take       *)
(* every lock in every mode the code uses.  Calls contend in pairs: a call  *)
(* starts while at most one other goroutine is inside a call, and that call *)
(* uses the same locks.                                                     *)

\* rand.Read gives one buffer here: the words drawn do not matter to locks
LockFills == {[i \in 1..randPoolSize |-> ZeroWord]}

\* the statements of getUint64 after rp.mu.Lock()
PoolStep(g) ==
    \/ PoolCheck(g) \/ PoolRefill(g, LockFills) \/ PoolRead(g)
    \/ PoolIncr(g) \/ PoolUnlock(g)

\* goroutine g is inside a call
Busy(g) == callers[g].pc # "idle"

\* the locks the call of goroutine h uses: scopesMu and a scope's mu, or
\* enabledMu, or the pool's mu
LockGroup(h) ==
    IF callers[h].op \in {"NewScope", "NewChild"} THEN "registry"
    ELSE IF callers[h].op = "" THEN "pool"
    ELSE "enabled"

\* at most one goroutine other than g is inside a call, and it uses the
\* locks of group grp
Contends(g, grp) ==
    \E h \in Callers :
        /\ \A k \in Callers \ {g, h} : ~Busy(k)
        /\ Busy(h) => LockGroup(h) = grp

LockRoots == {s \in ScopePtrs : scopes[s].name = "a"}
LockChildren == {s \in ScopePtrs : scopes[s].name = "a.b"}

LockCall(g) ==
    \/ Contends(g, "registry") /\ CallNewScope(g, "a", <<>>)
    \/ /\ Contends(g, "registry")
       /\ \E s \in LockRoots : CallNewChild(g, s, "b", <<>>)
    \/ /\ Contends(g, "enabled")
       /\ \E s \in LockChildren : CallIsActive(g, s, 1)
    \/ /\ Contends(g, "enabled")
       /\ \E s \in LockRoots : CallEnableScopeGlobal(g, <<s>>)
    \/ Contends(g, "pool") /\ PoolLock(g)

\* the statements of a goroutine that is inside a call
LockStep(g) ==
    \/ RegistryStep(g) \/ ActiveStep(g) \/ GlobalStep(g) \/ PoolStep(g)

NextConcLocks == \E g \in Callers : LockCall(g) \/ LockStep(g)

\* The Go scheduler preempts: a goroutine that can run does run.  A
\* sync.Mutex or sync.RWMutex in starvation mode hands the lock to the
\* goroutine that waited longest, and a waiting writer blocks new readers:
\* a goroutine whose Lock or RLock can return again and again gets the
\* lock.  Hence strong fairness of the statements of every goroutine; calls
\* are up to the callers and carry no fairness.
SpecConcLocks ==
    Init /\ [][NextConcLocks]_vars
         /\ \A g \in Callers : SF_vars(LockStep(g))

-----------------------------------------------------------------------------
(* Properties of scope activation, checked under Spec *)

\* the ancestors of a scope: its parent, its parent's parent, ...
RECURSIVE Ancestors(_)
Ancestors(s) ==
    IF scopes[s].parent = 0 THEN {}
    ELSE {scopes[s].parent} \cup Ancestors(scopes[s].parent)

ParentActive(s, c) == scopes[s].parent # 0 /\ isActive(scopes[s].parent, c)

\* a declared environment variable of s exists in the environment
SomeEnvVarExists(s) ==
    \E i \in 1..Len(scopes[s].envVars) : scopes[s].envVars[i] \in DOMAIN environ

\* C1: ancestor monotonicity. For every context, a scope is active whenever
\* its parent, or any ancestor further up the chain, is active.
C1_AncestorMonotonicity ==
    \A c \in CtxPtrs, s \in ScopePtrs :
        \A a \in Ancestors(s) : isActive(a, c) => isActive(s, c)

\* a chain of depth three whose root is active by its environment variable
\* alone, and whose two descendants have no signal of their own
C1_Witness ==
    \E c \in CtxPtrs, s \in ScopePtrs :
        /\ scopes[s].parent # 0
        /\ scopes[scopes[s].parent].parent # 0
        /\ LET p == scopes[s].parent
               g == scopes[scopes[s].parent].parent
           IN  /\ envPresent(g)
               /\ ~ctxEnabled(g, c) /\ ~globalEnabled(g) /\ ~levelMet(g, c)
               /\ \A x \in {s, p} :
                      /\ ~ctxEnabled(x, c) /\ ~globalEnabled(x)
                      /\ ~levelMet(x, c) /\ ~envPresent(x)
        /\ isActive(s, c)

\* C8: isActive is the OR of the five signals, in whatever order they are
\* checked; it is false exactly when none of them holds.
C8_ActiveIsOrOfSignals ==
    \A c \in CtxPtrs, s \in ScopePtrs :
        isActive(s, c) <=>
            \/ SomeEnvVarExists(s)
            \/ levelMet(s, c)
            \/ ParentActive(s, c)
            \/ globalEnabled(s)
            \/ ctxEnabled(s, c)

\* a scope whose declared level is not met by the context's level and which
\* is active by its environment variable alone
C8_Witness ==
    \E c \in CtxPtrs, s \in ScopePtrs :
        /\ scopes[s].logLevel # Nil
        /\ Value(c, logLevelKey) # Nil
        /\ ~levelMet(s, c)
        /\ ~ctxEnabled(s, c) /\ ~globalEnabled(s) /\ ~ParentActive(s, c)
        /\ SomeEnvVarExists(s)
        /\ isActive(s, c)

\* C10: the environment signal is existence only. A scope with no other
\* signal is active if and only if one of its declared environment variables
\* exists, whatever its value.
C10_EnvExistenceOnly ==
    \A c \in CtxPtrs, s \in ScopePtrs :
        (~ctxEnabled(s, c) /\ ~globalEnabled(s) /\ ~ParentActive(s, c)
             /\ ~levelMet(s, c))
        => (isActive(s, c) <=> SomeEnvVarExists(s))

\* a scope active only because a declared variable is set to the empty string
C10_Witness ==
    \E c \in CtxPtrs, s \in ScopePtrs :
        /\ ~ctxEnabled(s, c) /\ ~globalEnabled(s) /\ ~ParentActive(s, c)
        /\ ~levelMet(s, c)
        /\ isActive(s, c)
        /\ \A i \in 1..Len(scopes[s].envVars) :
               scopes[s].envVars[i] \in DOMAIN environ
                   => environ[scopes[s].envVars[i]] = ""


\* C6: context-local enablement is non-destructive. No step writes to a map
\* or a context that already exists, EnableScope returns a new context, and
\* a scope inactive against an existing context before EnableScope is still
\* inactive against it afterwards.
C6_EnableScopeNonDestructive ==
    [][ /\ \A m \in 1..Len(maps) : Len(maps') >= m /\ maps'[m] = maps[m]
        /\ \A c \in CtxPtrs : Len(ctxs') >= c /\ ctxs'[c] = ctxs[c]
        /\ \A c \in CtxPtrs, ss \in OneScope :
               EnableScope(c, ss) =>
                   /\ ret'.ctx \notin CtxPtrs
                   /\ \A d \in CtxPtrs, s \in ScopePtrs :
                          ~isActive(s, d) => ~isActive(s, d)'
      ]_vars

\* a context derived by EnableScope from a context that already carried a
\* map: the scope enabled last is active against the derived context and
\* inactive against the one it was derived from
C6_Witness ==
    \E c \in CtxPtrs, s \in ScopePtrs :
        /\ ctxs[c].key = enabledScopesKey
        /\ Value(ctxs[c].parent, enabledScopesKey) # Nil
        /\ ctxEnabled(s, c)
        /\ ~isActive(s, ctxs[c].parent)
        /\ ret = ReturnCtx(c)

NamesOf(ss) == {scopes[ss[i]].name : i \in 1..Len(ss)}

\* C7: global enable/disable is observable process-wide. After
\* EnableScopeGlobal(S) every given scope is active against every context,
\* and stays so against every context, new ones included, while it remains
\* enabled; after DisableScopeGlobal(S) a given scope is inactive against
\* every context in which no other signal holds, and every other globally
\* enabled scope stays enabled.
C7_GlobalEnableDisable ==
    /\ [](\A s \in ScopePtrs, c \in CtxPtrs :
              globalEnabled(s) => isActive(s, c))
    /\ [][ \A ss \in OneScope :
               /\ EnableScopeGlobal(ss) =>
                      \A i \in 1..Len(ss), c \in CtxPtrs :
                          isActive(ss[i], c)'
               /\ DisableScopeGlobal(ss) =>
                      /\ \A i \in 1..Len(ss), c \in CtxPtrs :
                             (~ctxEnabled(ss[i], c) /\ ~ParentActive(ss[i], c)
                                  /\ ~levelMet(ss[i], c)
                                  /\ ~envPresent(ss[i]))'
                             => ~isActive(ss[i], c)'
                      /\ \A n \in DOMAIN enabledScopes \ NamesOf(ss) :
                             /\ n \in DOMAIN enabledScopes'
                             /\ enabledScopes'[n] = enabledScopes[n]
          ]_vars

\* two scopes without any condition or ancestor, one globally enabled and
\* active against a context created by WithLogLevel, the other one not
\* enabled and inactive
C7_Witness ==
    \E s \in ScopePtrs, t \in ScopePtrs, c \in CtxPtrs :
        /\ ctxs[c].key = logLevelKey
        /\ globalEnabled(s) /\ isActive(s, c)
        /\ ~ctxEnabled(s, c) /\ ~ParentActive(s, c)
        /\ ~levelMet(s, c) /\ ~envPresent(s)
        /\ ~globalEnabled(t) /\ ~isActive(t, c)
        /\ ret = ReturnVoid

-----------------------------------------------------------------------------
(* Properties of the registry, checked under SpecRegistry *)

\* C2: registry idempotency. No step removes or replaces a registry entry
\* or changes a registered scope's name, environment variables or level; a
\* NewScope call with a registered name returns the registered instance.
C2_RegistryIdempotent ==
    [][ /\ \A n \in DOMAIN globalScopes :
               /\ n \in DOMAIN globalScopes'
               /\ globalScopes'[n] = globalScopes[n]
               /\ scopes'[globalScopes[n]].name = n
               /\ scopes'[globalScopes[n]].envVars
                      = scopes[globalScopes[n]].envVars
               /\ scopes'[globalScopes[n]].logLevel
                      = scopes[globalScopes[n]].logLevel
        /\ \A n \in DOMAIN globalScopes, o \in RegistryOptionLists :
               NewScope(n, o) =>
                   /\ ret' = ReturnScope(globalScopes[n])
                   /\ scopes' = scopes
      ]_vars

\* a call has just returned a scope that was registered earlier, and that
\* scope declares conditions
C2_Witness ==
    /\ ret.kind = "scope"
    /\ ret.scope < Len(scopes)
    /\ scopes[ret.scope].envVars # <<>>
    /\ scopes[ret.scope].logLevel # Nil
    /\ scopes[ret.scope].parent = 0

-----------------------------------------------------------------------------
(* Properties of From, checked under SpecFrom.  ret.kind = "logger" says  *)
(* that the last call was From; From leaves the registry, the enablement  *)
(* stores and the contexts alone, so activation is as it was in the call. *)
(***************************************************************************)

\* the options of one kind passed to the last From call
Given(kind) ==
    {ret.options[i] : i \in {j \in 1..Len(ret.options) :
                                 ret.options[j].kind = kind}}

\* x <= y on draws and rates
Le(x, y) == ~Gt(x, y)

ScopeGatePasses == \A o \in Given("scope") : isActive(o.scope, ret.ctx)
SamplingGatePasses ==
    \A o \in Given("sampling") : ret.randVal # Nil /\ Le(ret.randVal[1], o.rate)
CondGatePasses == \A o \in Given("cond") : o.condition.result

\* C3 as claimed: with sampling rate 0.0 From returns the discard logger for
\* every draw of either source, a draw equal to 0 included.
C3_RateZeroAlwaysDiscards ==
    (ret.kind = "logger" /\ WithSampling(Rate0) \in Given("sampling"))
        => ret.logger.discard

\* C4: with sampling rate 1.0, a scope that is absent or active and a
\* condition that is absent or true, From never returns the discard logger,
\* whatever either random source draws.
C4_RateOneNeverDiscards ==
    (ret.kind = "logger" /\ WithSampling(Rate1) \in Given("sampling")
         /\ ScopeGatePasses /\ CondGatePasses)
        => ~ret.logger.discard

\* the largest secure draw, (2^64 - 1) >> 11, kept at rate 1.0
C4_Witness ==
    /\ ret.kind = "logger"
    /\ WithSampling(Rate1) \in Given("sampling")
    /\ Given("fastRand") = {}
    /\ ret.randVal = Ptr(ShiftRight(<<Limb - 1, Limb - 1, Limb - 1, Limb - 1>>,
                                    ieee754MantissaShift))
    /\ Given("scope") # {}
    /\ ~ret.logger.discard

C9_InactiveScopeShortCircuits ==
    [][ (ret'.kind = "logger" /\ ~ScopeGatePasses')
            => /\ ret'.logger = createDiscardLogger
               /\ ret'.randVal = Nil
               /\ globalRandPool' = globalRandPool
               /\ ret'.condCalls = 0
      ]_vars

\* From with an inactive scope, a sampling rate and a condition, called when
\* the pool holds words that were filled in and not yet handed out
C9_Witness ==
    /\ ret.kind = "logger"
    /\ ~ScopeGatePasses
    /\ Given("sampling") # {} /\ Given("fastRand") = {} /\ Given("cond") # {}
    /\ globalRandPool.pos < Len(globalRandPool.buffer)
    /\ ret.logger.discard

-----------------------------------------------------------------------------
(* Properties of the level threshold, checked under SpecLevel *)

\* the level signal as the claim states it: a minimum level is declared, the
\* context carries a current level, and the current level is not below it
LevelSignal(s, c) ==
    /\ Len(scopes[s].logLevel) = 1
    /\ Len(Value(c, logLevelKey)) = 1
    /\ ~(Value(c, logLevelKey)[1] < scopes[s].logLevel[1])

\* C11: with no enablement and no active parent, a scope whose environment
\* variables are all absent is active exactly when its level signal holds
\* (equality included), and a scope whose level signal is false, for want of
\* a declared minimum or of a level in the context, is active exactly when
\* one of its environment variables exists.
C11_LevelSignal ==
    \A s \in ScopePtrs, c \in CtxPtrs :
        (~ctxEnabled(s, c) /\ ~globalEnabled(s) /\ ~ParentActive(s, c)) =>
            /\ ~SomeEnvVarExists(s) => (isActive(s, c) <=> LevelSignal(s, c))
            /\ ~LevelSignal(s, c) => (isActive(s, c) <=> SomeEnvVarExists(s))

\* a scope with minimum level Warn that is active against a context whose
\* current level is Warn, inactive against context.Background(), and next to
\* it a scope with minimum level Error that the same context leaves inactive
C11_Witness ==
    \E s \in ScopePtrs, t \in ScopePtrs, c \in CtxPtrs :
        /\ scopes[s].logLevel = Ptr(LevelWarn)
        /\ Value(c, logLevelKey) = Ptr(LevelWarn)
        /\ isActive(s, c) /\ ~isActive(s, 1)
        /\ scopes[t].logLevel = Ptr(LevelError)
        /\ ~SomeEnvVarExists(t) /\ ~isActive(t, c)

-----------------------------------------------------------------------------
(* Direction of propagation, checked under Spec *)

\* scope k is the only scope with a signal against context c, and the signal
\* is context enablement or one of its own environment variables
OnlyEnabled(k, c) ==
    /\ ctxEnabled(k, c) \/ SomeEnvVarExists(k)
    /\ \A t \in ScopePtrs :
           /\ ~globalEnabled(t)
           /\ ~LevelSignal(t, c)
           /\ t # k => (~ctxEnabled(t, c) /\ ~SomeEnvVarExists(t))

\* C12: activation propagates downward only. When scope k alone is enabled,
\* k and every descendant of k are active and every strict ancestor of k is
\* inactive.
C12_DownwardOnly ==
    \A c \in CtxPtrs, k \in ScopePtrs :
        OnlyEnabled(k, c) =>
            \A s \in ScopePtrs :
                /\ (s = k \/ k \in Ancestors(s)) => isActive(s, c)
                /\ s \in Ancestors(k) => ~isActive(s, c)

\* the middle scope of a chain of three, enabled by a context and by nothing
\* else: its child is active and its parent is not
C12_Witness ==
    \E c \in CtxPtrs, k \in ScopePtrs, s \in ScopePtrs :
        /\ OnlyEnabled(k, c) /\ ctxEnabled(k, c) /\ ~SomeEnvVarExists(k)
        /\ scopes[k].parent # 0
        /\ scopes[s].parent = k
        /\ isActive(s, c)
        /\ ~isActive(scopes[k].parent, c)

-----------------------------------------------------------------------------
(* Properties of logger binding and capture, checked under SpecLogger *)

\* the logger of the most recent With on the lineage of context c, the
\* process default when there is none
RECURSIVE LastBound(_)
LastBound(c) ==
    IF c = 0 THEN DefaultLogger
    ELSE IF ctxs[c].key = loggerKey THEN ctxs[c].val[1]
    ELSE LastBound(ctxs[c].parent)

\* C13: logger binding round trip. From without options returns the logger
\* of the most recent With on the context's lineage, the very logger given to
\* With, and the process default logger when no logger is bound.
C13_LoggerRoundTrip ==
    (ret.kind = "logger" /\ ret.options = <<>>) =>
        /\ ret.logger = LastBound(ret.ctx)
        /\ ctxs[ret.ctx].key = loggerKey => ret.logger = ctxs[ret.ctx].val[1]
        /\ (\A c \in CtxPtrs : ctxs[c].key # loggerKey)
               => ret.logger = DefaultLogger

\* From on a context made by With from a context that already had another
\* logger bound: the later logger is returned
C13_Witness ==
    /\ ret.kind = "logger" /\ ret.options = <<>>
    /\ ctxs[ret.ctx].key = loggerKey
    /\ ctxs[ret.ctx].parent # 0
    /\ ctxs[ctxs[ret.ctx].parent].key = loggerKey
    /\ ctxs[ctxs[ret.ctx].parent].val # ctxs[ret.ctx].val
    /\ ret.logger \in BoundLoggers
    /\ ret.logger = ctxs[ret.ctx].val[1]

\* the log call just made went through a live logger resolved from a
\* context whose bound logger is the one of Capture k, at a level its
\* handler passes: a record was emitted to k
EmittedTo(k) ==
    /\ ret.kind = "log"
    /\ ~ret.logger.discard
    /\ LastBound(ret.ctx) = CaptureLogger(k)
    /\ ret.level >= LevelInfo

\* C17: capture ordering. Every record emitted through a logger resolved
\* from a capture context is appended to that Capture, behind the records it
\* already holds, and nothing else changes a Capture; Messages returns the
\* messages of the records in that order and Records as many records.
C17_CaptureOrdering ==
    /\ [](/\ ret.kind = "messages" =>
                 /\ Len(ret.messages) = Len(captures[ret.capture].records)
                 /\ \A i \in 1..Len(ret.messages) :
                        ret.messages[i] =
                            captures[ret.capture].records[i].message
          /\ ret.kind = "records" =>
                 Len(ret.records) = Len(captures[ret.capture].records))
    /\ [][ \A k \in CapturePtrs :
               IF EmittedTo(k)'
               THEN /\ Len(captures'[k].records) = Len(captures[k].records) + 1
                    /\ SubSeq(captures'[k].records, 1, Len(captures[k].records))
                           = captures[k].records
                    /\ captures'[k].records[Len(captures'[k].records)].message
                           = ret'.msg
               ELSE captures'[k] = captures[k]
          ]_vars

\* Messages() after two different messages were logged: both, in the order
\* of the calls
C17_Witness ==
    /\ ret.kind = "messages"
    /\ ret.messages = <<"m2", "m1">>

\* C18: capture and discard are orthogonal. A log call on a logger that
\* From resolved with a failing gate (inactive scope, failed sample, false
\* predicate) leaves every Capture as it was.
C18_DiscardNeverCaptured ==
    [][ (ret'.kind = "log"
            /\ ~(ScopeGatePasses /\ SamplingGatePasses /\ CondGatePasses)')
           => \A k \in CapturePtrs : captures'[k] = captures[k]
      ]_vars

\* a log call at level Info on the discard logger that From returned for a
\* failed sample on a capture context, whose Capture holds no record
C18_Witness ==
    /\ ret.kind = "log" /\ ret.level = LevelInfo
    /\ ret.logger.discard
    /\ Given("sampling") # {} /\ ~SamplingGatePasses
    /\ \E k \in CapturePtrs :
           /\ LastBound(ret.ctx) = CaptureLogger(k)
           /\ captures[k].records = <<>>

-----------------------------------------------------------------------------
(* Properties of the secure pool as From uses it, checked under SpecFrom *)

\* the last call was a From call that drew from the secure pool
SecureDraw ==
    /\ ret.kind = "logger"
    /\ ret.randVal # Nil
    /\ ~config(ret.options).fastRand

PoolExhausted == globalRandPool.pos >= Len(globalRandPool.buffer)

\* C14: a failed refill is recovered locally. A From call that draws from the
\* exhausted pool returns a logger in every case; it either refills the
\* buffer and takes its first word, or, the refill failing, draws the
\* sentinel 0 and leaves cursor and buffer as they were, so that the pool is
\* still exhausted and the next call goes to the refill again. A call on a
\* pool that is not exhausted takes the word at the cursor and advances it.
C14_RefillFailureRecovered ==
    [][ SecureDraw' =>
           IF PoolExhausted
           THEN \/ /\ globalRandPool' = globalRandPool
                   /\ ret'.randVal = Ptr(ZeroWord)
                   /\ PoolExhausted'
                \/ /\ globalRandPool'.buffer \in Fills
                   /\ globalRandPool'.pos = 1
                   /\ ret'.randVal =
                          Ptr(Float64OfWord(globalRandPool'.buffer[1]))
           ELSE /\ globalRandPool' =
                       [globalRandPool EXCEPT !.pos = @ + 1]
                /\ ret'.randVal = Ptr(Float64OfWord(
                       globalRandPool.buffer[globalRandPool.pos + 1]))
      ]_vars

\* a secure draw of 0 on a pool whose buffer was filled and used up and whose
\* last word does not give the draw 0: the refill failed
RefillFailed ==
    /\ SecureDraw
    /\ PoolExhausted
    /\ globalRandPool.buffer \in Fills
    /\ Float64OfWord(globalRandPool.buffer[randPoolSize]) # ZeroWord
    /\ ret.randVal = Ptr(ZeroWord)

C14_Witness == RefillFailed /\ ~ret.logger.discard

\* C15 as claimed: the 0 of a failed refill always fails the sample. A From
\* call with a sampling rate strictly between 0 and 1 whose secure draw came
\* from a failed refill returns the discard logger.
C15_FailedRefillDiscards ==
    [][ (/\ SecureDraw'
         /\ PoolExhausted
         /\ globalRandPool' = globalRandPool
         /\ WithSampling(RateHalf) \in Given("sampling")')
           => ret'.logger.discard
      ]_vars

-----------------------------------------------------------------------------
(* Properties of the secure pool under concurrent callers, checked under   *)
(* SpecPool                                                                *)

\* C16: random pool consumption. Under every interleaving of the callers
\* the cursor stays within 0..len(buffer), no caller indexes past the
\* buffer, the slots returned since the last refill are 1, 2, ... in this
\* order, each once, and a caller reaches the refill only when all slots of
\* the previous fill have been returned.
C16_PoolConsumption ==
    /\ globalRandPool.pos \in 0..Len(globalRandPool.buffer)
    /\ Len(globalRandPool.buffer) = randPoolSize
    /\ \A g \in Callers : callers[g].pc # "panic"
    /\ \A i \in 1..Len(handed.slots) : handed.slots[i] = i
    /\ \A g \in Callers :
           (callers[g].pc = "refill" /\ handed.filled)
               => Len(handed.slots) = randPoolSize

\* one caller is about to refill a buffer that was filled before and whose
\* slots were all returned, while another caller waits for the mutex
C16_Witness ==
    \E g \in Callers, h \in Callers :
        /\ g # h
        /\ callers[g].pc = "refill"
        /\ callers[h].pc = "idle"
        /\ handed.filled
        /\ Len(handed.slots) = randPoolSize
        /\ ret.kind = "word" /\ ret.caller = h

-----------------------------------------------------------------------------
(* Properties of NewChild, checked under SpecRegistry *)

\* C19: child naming and resolvability. NewChild(short) on scope s returns
\* the scope named s.name + "." + short; the registry holds that scope under
\* the full name, so that NewScope(full name) returns the same instance; and
\* the parent of the returned scope is s.
C19_ChildNaming ==
    [][ \A s \in ScopePtrs, n \in RegistryShortNames,
           o \in RegistryOptionLists :
               NewChild(s, n, o) =>
                   /\ ret'.kind = "scope"
                   /\ scopes'[ret'.scope].name = scopes[s].name \o "." \o n
                   /\ scopes[s].name \o "." \o n \in DOMAIN globalScopes'
                   /\ globalScopes'[scopes[s].name \o "." \o n] = ret'.scope
                   /\ NewScopeResult(globalScopes', scopes',
                                     scopes[s].name \o "." \o n, <<>>)
                          = ret'.scope
                   /\ scopes'[ret'.scope].parent = s
      ]_vars

\* NewChild has just returned a scope of depth three that NewScope had
\* registered under its full name before: its parent is the scope NewChild
\* was called on, which is a child itself
C19_Witness ==
    /\ ret.kind = "scope"
    /\ scopes[ret.scope].name = "a.b.b"
    /\ scopes[ret.scope].parent # 0
    /\ scopes[scopes[ret.scope].parent].name = "a.b"
    /\ scopes[scopes[ret.scope].parent].parent # 0
    /\ globalScopes["a.b.b"] = ret.scope

\* C20 as claimed: the child collection of a scope holds every child once,
\* however often NewChild was called with the same short name.
C20_ChildrenWithoutDuplicates ==
    \A s \in ScopePtrs :
        \A i \in 1..Len(scopes[s].children), j \in 1..Len(scopes[s].children) :
            scopes[s].children[i] = scopes[s].children[j] => i = j

-----------------------------------------------------------------------------
(* The lifecycle of a scope, checked under SpecRegistry *)

\* C21 as claimed: once a scope exists, no step changes its name, its
\* environment-variable list, its level threshold or its parent link; a step
\* may only append to its children.
C21_ScopeFieldsFrozen ==
    [][ \A s \in ScopePtrs :
            /\ s \in 1..Len(scopes')
            /\ scopes'[s].name = scopes[s].name
            /\ scopes'[s].envVars = scopes[s].envVars
            /\ scopes'[s].logLevel = scopes[s].logLevel
            /\ scopes'[s].parent = scopes[s].parent
            /\ Len(scopes'[s].children) >= Len(scopes[s].children)
            /\ SubSeq(scopes'[s].children, 1, Len(scopes[s].children))
                   = scopes[s].children
      ]_vars

-----------------------------------------------------------------------------
(* Repeated evaluation of a scope against a context, checked under SpecFrom *)

-----------------------------------------------------------------------------
(* Properties of concurrent callers, checked under SpecConcRegistry *)

\* the locks goroutine g holds
Held(g) ==
    (IF locks.scopesMu.writer = g \/ g \in locks.scopesMu.readers
     THEN {<<"scopesMu">>} ELSE {})
    \cup (IF locks.enabledMu.writer = g \/ g \in locks.enabledMu.readers
          THEN {<<"enabledMu">>} ELSE {})
    \cup (IF mu = g THEN {<<"globalRandPool.mu">>} ELSE {})
    \cup {<<"mu", s>> : s \in {t \in DOMAIN locks.scopeMu :
                                  locks.scopeMu[t].writer = g}}

\* the shared fields the next statement of goroutine g reads or writes
Access(g) ==
    LET c == callers[g]
    IN  IF c.pc = "ns_check"
        THEN {[field |-> <<"globalScopes">>, write |-> FALSE]}
        ELSE IF c.pc = "ns_register"
        THEN {[field |-> <<"globalScopes">>, write |-> TRUE]}
        ELSE IF c.pc = "nc_parent"
        THEN {[field |-> <<"parent", c.child>>, write |-> TRUE]}
        ELSE IF c.pc = "nc_append"
        THEN {[field |-> <<"children", c.scope>>, write |-> TRUE]}
        ELSE IF c.pc \in {"ia_read", "gg_copy"}
        THEN {[field |-> <<"enabledScopes">>, write |-> FALSE]}
        ELSE IF c.pc = "ia_parent"
        THEN {[field |-> <<"parent", Head(c.stack)>>, write |-> FALSE]}
        ELSE IF c.pc = "eg_write"
        THEN {[field |-> <<"enabledScopes">>, write |-> TRUE]}
        ELSE IF c.pc \in {"check", "read"}
        THEN {[field |-> <<"globalRandPool">>, write |-> FALSE]}
        ELSE IF c.pc \in {"refill", "incr"}
        THEN {[field |-> <<"globalRandPool">>, write |-> TRUE]}
        ELSE {}

\* C23 as claimed: no goroutine is about to read or write a shared field
\* that another goroutine is about to write unless the two hold a common
\* lock.
C23_SharedStateLockProtected ==
    \A g \in Callers, h \in Callers :
        \A x \in Access(g), y \in Access(h) :
            (g # h /\ x.field = y.field /\ (x.write \/ y.write))
                => Held(g) \cap Held(h) # {}

\* C25: concurrent registration. Whatever the interleaving of NewScope and
\* NewChild calls, one Scope instance exists for a name, the registry holds
\* that instance under the name, and every caller that is past the
\* registration, returned or not, has got that instance.
C25_ConcurrentRegistration ==
    /\ \A s \in ScopePtrs, t \in ScopePtrs :
           scopes[s].name = scopes[t].name => s = t
    /\ \A n \in DOMAIN globalScopes :
           globalScopes[n] \in ScopePtrs /\ scopes[globalScopes[n]].name = n
    /\ \A g \in Callers :
           (callers[g].child # 0 /\ callers[g].pc # "ns_register")
               => /\ callers[g].name \in DOMAIN globalScopes
                  /\ globalScopes[callers[g].name] = callers[g].child
    /\ ret.kind = "scope"
           => /\ ret.scope \in ScopePtrs
              /\ globalScopes[scopes[ret.scope].name] = ret.scope

\* two goroutines are inside NewScope for the same name with different
\* conditions: one has created and registered the scope and still holds the
\* lock, the other called before the name was registered and waits
C25_Witness ==
    \E g \in Callers, h \in Callers :
        /\ callers[g].op = "NewScope" /\ callers[h].op = "NewScope"
        /\ callers[g].name = callers[h].name
        /\ callers[g].options # callers[h].options
        /\ callers[g].pc = "ns_unlock"
        /\ callers[g].child = Len(scopes)
        /\ Len(scopes) = 1
        /\ callers[h].pc = "ns_lock"
        /\ ret.kind = "void"

-----------------------------------------------------------------------------
(* Properties of isActive under concurrent EnableScopeGlobal and           *)
(* DisableScopeGlobal calls, checked under SpecConcActive                   *)

\* C26 as claimed: linearizable activation. The value isActive returns is
\* the activation of the scope in one of the states of the global store
\* that existed between the call and its return; so when the scope or one of
\* its ancestors is enabled in every such state, isActive returns true.
C26_LinearizableActivation ==
    ret.kind = "active" => ret.active \in ret.seen

\* C26 as amended: isActive reads the global store once for each scope of
\* the lineage, taking and releasing the lock for each read. A result of
\* true is the activation of the scope in a state that existed during the
\* call; a result of false need not be.
C26_TrueWasObserved ==
    (ret.kind = "active" /\ ret.active) => TRUE \in ret.seen

\* isActive returned true for a child whose own name is not in the store,
\* after the store changed during the call: the child was inactive in one
\* state of the call and active in another
C26_Witness ==
    /\ ret.kind = "active"
    /\ ret.active
    /\ ret.seen = {TRUE, FALSE}
    /\ scopes[ret.scope].parent # 0
    /\ ~globalEnabled(ret.scope)

-----------------------------------------------------------------------------
(* Lock discipline, checked under SpecConcLocks *)

\* goroutine g waits for a lock somebody holds
Blocked(g) ==
    \/ callers[g].pc = "ns_lock" /\ ~CanWLock(locks.scopesMu)
    \/ callers[g].pc = "nc_lock" /\ ~CanWLock(ScopeMu(callers[g].scope))
    \/ callers[g].pc = "eg_lock" /\ ~CanWLock(locks.enabledMu)
    \/ callers[g].pc \in {"ia_rlock", "gg_rlock"}
           /\ ~CanRLock(locks.enabledMu)

\* C24: lock discipline. No goroutine ever holds more than one of scopesMu,
\* enabledMu, a scope's mu and the pool's mu; a goroutine that waits for a
\* lock holds none; whenever goroutines are inside calls one of them can
\* take a step (no deadlock); and every call returns.
C24_LockDiscipline ==
    /\ [](\A g \in Callers :
              /\ Cardinality(Held(g)) <= 1
              /\ Blocked(g) => Held(g) = {}
              /\ callers[g].pc # "panic")
    /\ []((\E g \in Callers : Busy(g))
              => \E g \in Callers : Busy(g) /\ ~Blocked(g))
    /\ \A g \in Callers : Busy(g) ~> ~Busy(g)

\* a goroutine inside NewChild has released scopesMu and holds the parent's
\* mu, another one inside NewChild holds scopesMu, and nobody waits
C24_Witness ==
    \E g \in Callers, h \in Callers :
        /\ callers[g].op = "NewChild" /\ callers[h].op = "NewChild"
        /\ Held(g) = {<<"mu", callers[g].scope>>}
        /\ Held(h) = {<<"scopesMu">>}
        /\ callers[g].scope = callers[h].scope


\* the contexts made by EnableScope
EnableCtxs == {c \in CtxPtrs : ctxs[c].key = enabledScopesKey}

\* C27: sibling independence. EnableScope calls against the same parent,
\* one after the other or overlapping, return independent contexts: the map
\* of the returned context is carried by no other context and is the map no
\* other call is building, a scope is enabled in the returned context exactly
\* when it was given to this call or is enabled in the parent (so a scope
\* given to a sibling call only is not), and no step writes to a map a
\* context carries.
C27_SiblingIndependence ==
    /\ [](\A c \in EnableCtxs, d \in EnableCtxs :
              c # d => ctxs[c].val # ctxs[d].val)
    /\ [][ /\ \A c \in EnableCtxs :
                  maps'[ctxs[c].val[1]] = maps[ctxs[c].val[1]]
           /\ \A g \in Callers :
                  callers[g].pc = "es_return" /\ callers'[g].pc = "idle" =>
                      /\ \A c \in EnableCtxs : ret'.ctx # c
                      /\ \A h \in Callers :
                             h # g /\ callers[h].op = "EnableScope"
                                   /\ callers[h].pc \in {"es_copy", "es_add",
                                                         "es_return"}
                                 => callers[h].contextScopes
                                        # callers[g].contextScopes
                      /\ \A s \in ScopePtrs :
                             (ctxEnabled(s, ret.ctx))' <=>
                                 \/ ctxEnabled(s, callers[g].ctx)
                                 \/ \E i \in 1..Len(callers[g].args) :
                                        callers[g].args[i] = s
         ]_vars

\* two overlapping calls on one parent have returned: the context returned
\* last carries the map made first, each of two scopes is enabled in one of
\* the contexts and not in the other
C27_Witness ==
    \E c \in EnableCtxs, d \in EnableCtxs, s \in ScopePtrs, t \in ScopePtrs :
        /\ c < d
        /\ ctxs[c].parent = ctxs[d].parent
        /\ ctxs[c].val[1] > ctxs[d].val[1]
        /\ ctxEnabled(s, c) /\ ~ctxEnabled(s, d)
        /\ ctxEnabled(t, d) /\ ~ctxEnabled(t, c)
        /\ ret = ReturnCtx(d)


\* the contexts ctx was derived from, one call after the other
RECURSIVE Lineage(_)
Lineage(ctx) ==
    IF ctxs[ctx].parent = 0 THEN {}
    ELSE {ctxs[ctx].parent} \cup Lineage(ctxs[ctx].parent)

\* C28: context enablement is additive along a lineage. A scope enabled in
\* a context is enabled in, and active against, every context derived from
\* it by EnableScope, With and WithLogLevel calls, and no step removes a
\* scope from what a context has enabled.
C28_EnablementAdditive ==
    /\ [](\A c \in CtxPtrs, s \in ScopePtrs :
              \A d \in Lineage(c) :
                  ctxEnabled(s, d) => ctxEnabled(s, c) /\ isActive(s, c))
    /\ [][\A c \in CtxPtrs, s \in ScopePtrs :
              ctxEnabled(s, c) => (ctxEnabled(s, c))']_vars

\* EnableScope has just derived a context from one that had a scope
\* enabled: the derived context has that scope enabled still, next to one
\* the parent has not
C28_Witness ==
    \E c \in CtxPtrs, s \in ScopePtrs, t \in ScopePtrs :
        /\ ctxs[c].key = enabledScopesKey
        /\ ctxEnabled(s, ctxs[c].parent)
        /\ ~ctxEnabled(t, ctxs[c].parent)
        /\ ctxEnabled(s, c) /\ ctxEnabled(t, c)
        /\ ret = ReturnCtx(c)


\* C29: activation evaluation is read-only. A From call whose only option
\* is a scope leaves the registry, every scope's fields, the global
\* enablement store, the environment, every context and its enablement map,
\* the random pool and the locks as they were, and so the activation of
\* every scope against every context, whether the scope is active or not.
C29_EvaluationReadOnly ==
    [][\A c \in CtxPtrs, s \in ScopePtrs :
           From(c, <<ScopeOpt(s)>>, Fills, FastDraws) =>
               /\ UNCHANGED <<globalScopes, scopes, enabledScopes, environ,
                              ctxs, maps, globalRandPool, locks>>
               /\ \A t \in ScopePtrs, d \in CtxPtrs :
                      (isActive(t, d))' = isActive(t, d)
      ]_vars

\* From with a scope as its only option returned a live logger, made no
\* draw, and the pool still holds words not yet handed out
C29_Witness ==
    \E s \in ScopePtrs :
        /\ ret.kind = "logger"
        /\ ret.options = <<ScopeOpt(s)>>
        /\ isActive(s, ret.ctx)
        /\ ~ret.logger.discard
        /\ ret.randVal = Nil
        /\ globalRandPool.pos < Len(globalRandPool.buffer)


\* C30: gate ordering in From. The scope is checked first, sampling next,
\* the condition last: a draw is made only when the scope gate passed, the
\* condition is called at most once, and it is called exactly when one was
\* given and the scope gate and the sampling gate both passed, so never
\* after a failed sample.
C30_GateOrdering ==
    ret.kind = "logger" =>
        /\ ret.randVal # Nil => ScopeGatePasses /\ Given("sampling") # {}
        /\ ret.condCalls \in {0, 1}
        /\ ret.condCalls = 1 <=>
               /\ Given("cond") # {}
               /\ ScopeGatePasses
               /\ SamplingGatePasses
        /\ ~SamplingGatePasses => ret.condCalls = 0

\* From with an active scope, a sampling rate and a condition that would
\* have returned true: the draw exceeded the rate, the condition was not
\* called
C30_Witness ==
    /\ ret.kind = "logger"
    /\ Given("scope") # {} /\ ScopeGatePasses
    /\ WithCond([result |-> TRUE]) \in Given("cond")
    /\ ret.randVal # Nil
    /\ ~SamplingGatePasses
    /\ ret.condCalls = 0
    /\ ret.logger.discard


-----------------------------------------------------------------------------
(* Properties of From and the pool, checked under SpecFrom *)

\* the last call was a From call with a sampling rate, the secure source and
\* no scope or an active one
SecureSampling ==
    /\ ret.kind = "logger"
    /\ Given("sampling") # {}
    /\ ~config(ret.options).fastRand
    /\ ScopeGatePasses

\* the step took one word from the pool: the word at the cursor, or the first
\* word of a new fill when the buffer was used up
TookOneWord ==
    IF PoolExhausted
    THEN globalRandPool'.buffer \in Fills /\ globalRandPool'.pos = 1
    ELSE globalRandPool' = [globalRandPool EXCEPT !.pos = @ + 1]

\* C31 as claimed: a From call leaves the pool and its mutex alone unless it
\* samples with the secure source past the scope gate, and then it consumes
\* exactly one word.
C31_SecureSamplingTakesOneWord ==
    [][ ret'.kind = "logger" =>
            IF SecureSampling'
            THEN TookOneWord
            ELSE UNCHANGED <<globalRandPool, mu, handed>>
      ]_vars

\* C31, amended: a From call leaves the pool and its mutex alone unless it
\* samples with the secure source past the scope gate; then it consumes
\* exactly one word, or, the buffer being used up and the refill failing,
\* it draws 0 and leaves buffer and cursor as they were.
C31_PoolTouchedBySecureSamplingOnly ==
    [][ ret'.kind = "logger" =>
            IF SecureSampling'
            THEN \/ TookOneWord
                 \/ /\ PoolExhausted
                    /\ globalRandPool' = globalRandPool
                    /\ ret'.randVal = Ptr(ZeroWord)
            ELSE UNCHANGED <<globalRandPool, mu, handed>>
      ]_vars

\* From sampled with the fast source while the pool was in the middle of a
\* fill: a draw was made and words of the fill are still to be handed out
C31_Witness ==
    /\ ret.kind = "logger"
    /\ Given("sampling") # {} /\ Given("fastRand") # {}
    /\ ret.randVal # Nil
    /\ globalRandPool.buffer \in Fills
    /\ globalRandPool.pos \in 1..(Len(globalRandPool.buffer) - 1)


-----------------------------------------------------------------------------
(* Properties of GetGlobalEnabledScopes, checked under SpecConcList *)

\* the scopes EnableScopeGlobal has enabled and DisableScopeGlobal has not
\* disabled since
EnabledNow == {enabledScopes[n] : n \in DOMAIN enabledScopes}

\* C32: GetGlobalEnabledScopes returns a snapshot. The store holds every
\* enabled scope once, under its own name; the list is copied at a moment
\* when no EnableScopeGlobal or DisableScopeGlobal call has written some of
\* its scopes and not yet the others, and holds each scope enabled at that
\* moment once and nothing else; from then on no step of any goroutine
\* alters the list, which is what the caller gets.
C32_ListIsSnapshot ==
    /\ [](\A n \in DOMAIN enabledScopes : scopes[enabledScopes[n]].name = n)
    /\ [][\A g \in Callers :
              /\ callers[g].pc = "gg_copy" /\ callers'[g].pc = "gg_runlock" =>
                     /\ \A h \in Callers :
                            ~(callers[h].pc = "eg_write" /\ callers[h].i > 0)
                     /\ Len(callers'[g].args) = Cardinality(EnabledNow)
                     /\ {callers'[g].args[k] :
                            k \in 1..Len(callers'[g].args)} = EnabledNow
              /\ callers[g].pc \in {"gg_runlock", "gg_return"} =>
                     \/ callers'[g].args = callers[g].args
                     \/ /\ callers'[g].pc = "idle"
                        /\ ret' = ReturnScopes(callers[g].args)
         ]_vars

\* the caller got a list of two scopes that were enabled by one call; both
\* have been disabled by the time the list is returned
C32_Witness ==
    /\ ret.kind = "scopes"
    /\ Len(ret.scopes) = 2
    /\ enabledScopes = [n \in {} |-> 0]
    /\ \A g \in Togglers : callers[g].pc = "idle"


-----------------------------------------------------------------------------
(* Properties of the secure draw, checked under SpecDraw *)

\* C33: secure draw range. The draw From makes from a word of the pool is a
\* numerator over 2^53 whose limbs are integers in range and which is below
\* 2^53: the draw is in [0, 1) and never 1. It is the word without its low
\* 11 bits, so a word below 2^11 draws 0.
C33_SecureDrawRange ==
    SecureDraw =>
        /\ ret.randVal[1] \in [1..4 -> 0..(Limb - 1)]
        /\ Gt(One, ret.randVal[1])
        /\ ret.randVal[1] # One
        /\ ~PoolExhausted =>
               LET w == globalRandPool.buffer[globalRandPool.pos]
               IN  /\ w \in DrawWords
                   /\ \A i \in 1..4 :
                          ret.randVal[1][i] =
                              (w[i] \div 2^ieee754MantissaShift)
                              + (IF i = 1 THEN 0
                                 ELSE (w[i - 1] % 2^ieee754MantissaShift)
                                          * 2^(LimbBits - ieee754MantissaShift))

\* the word 2^11 - 1 was taken from a pool that still holds words: its draw
\* is 0
C33_Witness ==
    /\ SecureDraw
    /\ ~PoolExhausted
    /\ globalRandPool.buffer[globalRandPool.pos] =
           <<0, 0, 0, 2^ieee754MantissaShift - 1>>
    /\ ret.randVal = Ptr(ZeroWord)


-----------------------------------------------------------------------------
(* Properties of the scope field, checked under SpecField *)

\* C34: the live logger From returns for a scope is the logger bound in the
\* context with one more field, ctxlog.scope, whose value is the name of the
\* scope given to From, whichever signal or ancestor made the scope active;
\* without a scope option the live logger is the bound logger itself.
C34_ScopeField ==
    (ret.kind = "logger" /\ ~ret.logger.discard) =>
        /\ \A o \in Given("scope") :
               /\ ret.logger.attrs =
                      LastBound(ret.ctx).attrs
                          \o << <<"ctxlog.scope", scopes[o.scope].name>> >>
               /\ [ret.logger EXCEPT !.attrs = <<>>]
                      = [LastBound(ret.ctx) EXCEPT !.attrs = <<>>]
        /\ Given("scope") = {} => ret.logger = LastBound(ret.ctx)

\* From returned a live logger for the scope "a.b" on a context with a bound
\* logger; "a.b" is active only because "a" is enabled globally
C34_Witness ==
    /\ ret.kind = "logger" /\ ~ret.logger.discard
    /\ \E o \in Given("scope") :
           /\ scopes[o.scope].name = "a.b"
           /\ ~globalEnabled(o.scope) /\ ~ctxEnabled(o.scope, ret.ctx)
           /\ ParentActive(o.scope, ret.ctx)
    /\ LastBound(ret.ctx) \in BoundLoggers
    /\ ret.logger.attrs = << <<"ctxlog.scope", "a.b">> >>


-----------------------------------------------------------------------------
(* Properties of the current level, checked under SpecCtxLevel *)

\* the scopes a context has enabled, none when it carries no map
EnabledIn(c) ==
    IF Value(c, enabledScopesKey) = Nil THEN EmptyMap
    ELSE maps[Value(c, enabledScopesKey)[1]]

\* contexts c and d differ in nothing but the level they bind: they give the
\* same logger and the same enabled scopes
SameButLevel(c, d) ==
    /\ Value(c, loggerKey) = Value(d, loggerKey)
    /\ EnabledIn(c) = EnabledIn(d)
    /\ Value(c, logLevelKey) # Value(d, logLevelKey)

\* neither scope s nor any of its ancestors declares a minimum level
NoThreshold(s) == \A t \in {s} \cup Ancestors(s) : scopes[t].logLevel = Nil

\* C35: level non-interference. Against two contexts that differ only in
\* the level they bind, a scope with no minimum level on its ancestor chain
\* is active against both or against neither; and two From calls in a row
\* with the same options and the same draw on two such contexts, with no
\* scope or with such a scope, both return a live logger or both the discard
\* logger.
C35_LevelNonInterference ==
    /\ [](\A c \in CtxPtrs, d \in CtxPtrs, s \in ScopePtrs :
              (SameButLevel(c, d) /\ NoThreshold(s))
                  => (isActive(s, c) <=> isActive(s, d)))
    /\ [][ (/\ ret.kind = "logger" /\ ret'.kind = "logger"
            /\ ret'.options = ret.options
            /\ ret'.randVal = ret.randVal
            /\ SameButLevel(ret.ctx, ret'.ctx)
            /\ \A o \in Given("scope") : NoThreshold(o.scope))
               => /\ ret'.logger.discard = ret.logger.discard
                  /\ ret'.logger = ret.logger
         ]_vars

\* From returned the discard logger for a scope with no minimum level on
\* its chain, on a context that binds a level; there is a context that
\* differs from it in the level only, and a scope with a minimum level that
\* is active against one of the two and not against the other
C35_Witness ==
    /\ ret.kind = "logger"
    /\ ret.logger.discard
    /\ Value(ret.ctx, logLevelKey) # Nil
    /\ \E o \in Given("scope"), c \in CtxPtrs, t \in ScopePtrs :
           /\ NoThreshold(o.scope)
           /\ SameButLevel(c, ret.ctx)
           /\ scopes[t].logLevel # Nil
           /\ isActive(t, c) # isActive(t, ret.ctx)


-----------------------------------------------------------------------------
(* Termination of the ancestor check, checked under SpecRegistry *)

\* following parent links from scope s reaches a scope without a parent in
\* at most k steps
RECURSIVE ChainEnds(_, _)
ChainEnds(s, k) ==
    IF s = 0 THEN TRUE
    ELSE IF k = 0 THEN FALSE
    ELSE ChainEnds(scopes[s].parent, k - 1)

\* C36: isActive terminates. After any sequence of NewScope and NewChild
\* calls, NewChild on registered names included, the name of every scope
\* with a parent is the parent's name, a dot and a short name, and so
\* strictly longer than the parent's; the parent chain of every scope ends
\* after fewer links than there are scopes; and the ancestor check has a
\* value for every scope.
C36_ParentChainEnds ==
    \A s \in ScopePtrs :
        /\ scopes[s].parent # 0 =>
               /\ \E n \in RegistryShortNames :
                      scopes[s].name = scopes[scopes[s].parent].name \o "." \o n
               /\ Len(scopes[s].name) > Len(scopes[scopes[s].parent].name)
        /\ ChainEnds(s, Len(scopes))
        /\ isActive(s, 1) \in BOOLEAN

\* the scope "a.b.b" is a child of "a.b" and was given to "a" as a child
\* afterwards: its parent link was rewritten and its chain has one link
C36_Witness ==
    \E s \in ScopePtrs, p \in ScopePtrs :
        /\ scopes[s].name = "a.b.b"
        /\ scopes[p].name = "a.b"
        /\ \E i \in 1..Len(scopes[p].children) : scopes[p].children[i] = s
        /\ scopes[s].parent # 0
        /\ scopes[scopes[s].parent].name = "a"
        /\ scopes[scopes[s].parent].parent = 0


-----------------------------------------------------------------------------
(* Properties of the global store, checked under SpecGlobal *)

\* C37: global enablement is a set of names, not a counter. However often
\* the scopes were enabled before, one DisableScopeGlobal call leaves none of
\* its scopes enabled; EnableScopeGlobal on scopes that are all enabled and
\* DisableScopeGlobal on scopes none of which is enabled leave the store as
\* it is; and the store never holds more entries than there are scopes.
C37_GlobalStoreIsSet ==
    /\ [](Cardinality(DOMAIN enabledScopes) <= Len(scopes))
    /\ [][ \A ss \in ScopeArgs :
               /\ DisableScopeGlobal(ss) =>
                      \A i \in 1..Len(ss) : ~globalEnabled(ss[i])'
               /\ EnableScopeGlobal(ss) =>
                      /\ \A i \in 1..Len(ss) : globalEnabled(ss[i])'
                      /\ (\A i \in 1..Len(ss) : globalEnabled(ss[i]))
                             => enabledScopes' = enabledScopes
               /\ (DisableScopeGlobal(ss)
                       /\ \A i \in 1..Len(ss) : ~globalEnabled(ss[i]))
                      => enabledScopes' = enabledScopes
         ]_vars

\* one scope is enabled and the other two are not, after a call that
\* returned nothing: "a.b" alone is in the store
C37_Witness ==
    /\ ret = ReturnVoid
    /\ Len(scopes) = 3
    /\ DOMAIN enabledScopes = {"a.b"}


-----------------------------------------------------------------------------
(* Properties of repeated options, checked under SpecTwice *)

\* the last option of the kind given to the last From call, if any
LastGiven(kind) ==
    LET at == {j \in 1..Len(ret.options) : ret.options[j].kind = kind}
    IN  {ret.options[j] : j \in {k \in at : \A l \in at : l <= k}}

\* C38: of several options of one kind only the last takes effect. From
\* returns a live logger exactly when the last scope given is active, the
\* draw is at most the last rate given and the last condition given is
\* true, whatever the earlier options of these kinds are; the scope field
\* names the last scope, and the condition is called once at most.
C38_LastOptionWins ==
    ret.kind = "logger" =>
        /\ ~ret.logger.discard <=>
               /\ \A o \in LastGiven("scope") : isActive(o.scope, ret.ctx)
               /\ \A o \in LastGiven("sampling") :
                      ret.randVal # Nil /\ Le(ret.randVal[1], o.rate)
               /\ \A o \in LastGiven("cond") : o.condition.result
        /\ ~ret.logger.discard =>
               \A o \in LastGiven("scope") :
                   ret.logger.attrs = << <<"ctxlog.scope", scopes[o.scope].name>> >>
        /\ ret.condCalls \in {0, 1}

\* From with two scopes, the first inactive and the second active, two rates,
\* 0 and then 1, and two conditions, false and then true, returned a live
\* logger on a draw above 0
C38_Witness ==
    /\ ret.kind = "logger"
    /\ \E s \in ScopePtrs, t \in ScopePtrs :
           /\ ~isActive(s, ret.ctx) /\ isActive(t, ret.ctx)
           /\ ret.options = <<ScopeOpt(s), ScopeOpt(t),
                              WithSampling(Rate0), WithSampling(Rate1),
                              WithFastRand,
                              WithCond([result |-> FALSE]),
                              WithCond([result |-> TRUE])>>
    /\ ret.randVal # Ptr(ZeroWord)
    /\ ~ret.logger.discard
    /\ ret.condCalls = 1

-----------------------------------------------------------------------------
(* Properties of the pool's first use, checked under SpecPool *)

\* C39: the pool starts exhausted. As long as no refill has succeeded the
\* buffer holds zeroes only, the cursor is at the buffer size, and a
\* caller that has checked the cursor goes to the refill, never to the read.
\* A caller that returns a word of the buffer returns the word at its slot
\* of a buffer rand.Read wrote, after a refill that succeeded; a caller that
\* returns without a slot returns the sentinel 0.
C39_PoolStartsExhausted ==
    [][ \A g \in Callers :
          /\ ~handed.filled =>
                 /\ \A i \in DOMAIN globalRandPool.buffer :
                        globalRandPool.buffer[i] = ZeroWord
                 /\ globalRandPool.pos = Len(globalRandPool.buffer)
                 /\ callers[g].pc \notin {"read", "incr"}
                 /\ callers[g].slot = 0
                 /\ (callers[g].pc = "check" /\ callers'[g].pc # "check")
                        => callers'[g].pc = "refill"
          /\ (callers[g].pc = "unlock" /\ callers'[g].pc = "idle") =>
                 /\ ret'.kind = "word" /\ ret'.caller = g
                 /\ IF callers[g].slot # 0
                    THEN /\ handed.filled
                         /\ globalRandPool.buffer \in Fills
                         /\ ret'.val = globalRandPool.buffer[callers[g].slot]
                    ELSE ret'.val = ZeroWord
      ]_vars

\* the first word handed out: a refill succeeded, the caller returned the
\* word of slot 1, which is not 0, and the cursor is at 1
C39_Witness ==
    /\ handed = [filled |-> TRUE, slots |-> <<1>>]
    /\ ret.kind = "word"
    /\ ret.val = globalRandPool.buffer[1]
    /\ ret.val # ZeroWord
    /\ globalRandPool.pos = 1
    /\ callers[ret.caller].pc = "idle"

=============================================================================
